---- MODULE Spec2Model ----
(***************************************************************************)
(* Rally Bot (src/main.py): the rally / temp voice channel / voice session *)
(* lifecycle of one guild, as the state machine the asyncio event loop     *)
(* runs.  Every coroutine is cut at its awaits: one action is the code     *)
(* between two suspension points.  Time is counted in ticks of 60 s; every *)
(* timer is kept as the number of ticks it still has to sleep.             *)
(***************************************************************************)
EXTENDS Integers, FiniteSets, Sequences, TLC

\* ------------------------------------------------------------- bounds
NUsers == 1              \* non-bot members of the guild
MaxRallies == 2          \* rallies (and temp voice channels) ever created
NKinds == 1              \* rally kinds the creation commands are drawn from
MaxCalls == 2            \* slash-command / button handlers in flight at once
MaxFinished == 2         \* playback-finished notifications not yet run
MaxHoldTicks == 1        \* longest /vc_hold, in ticks
MaxCmds == 2             \* voice commands issued in one run of Spec
MaxUpdates == 2          \* voice-state changes of users in one run of Spec
MaxJoins == 2            \* join forms submitted in one run of JoinSpec
VoiceMaxCmds == 3        \* voice commands issued in one run of VoiceSpec
VoiceMaxUpdates == 3     \* voice-state changes of users in one run of VoiceSpec

\* ------------------------------------------------- program constants
\* one tick is 60 s, the period of every fixed sleep of the program
CooldownTicks == 1                  \* time.time() + 60
DELETE_VC_IF_EMPTY_AFTER_SECS == 2  \* grace period, in ticks (env-configured)
DISCONNECT_AFTER_PLAY_SECS == 1     \* post-playback delay, in ticks (env-configured)
VOICE_IDLE_TIMEOUT_SECS == 2        \* idle timeout, in ticks (env-configured)
None == 0                           \* Python's None for channel ids, message ids, urls

Min(a, b) == IF a < b THEN a ELSE b
Max(a, b) == IF a > b THEN a ELSE b
Users == 1..NUsers
Bot == NUsers + 1                   \* bot.user.id
TempChans == 1..MaxRallies
Lobby == MaxRallies + 1             \* a permanent voice channel of the guild
Lounge == MaxRallies + 2            \* another one
Chans == TempChans \cup {Lobby, Lounge}
MessageId(c) == 10 + c              \* dummy.id of the announcement of the rally with channel c
InviteUrl(c) == 100 + c             \* invite.url made for channel c
RallyKinds == {<<"KEEP", "SOP">>[i] : i \in 1..Min(NKinds, 2)}

VARIABLES
  RALLIES,        \* message_id -> Rally (a function on the ids registered)
  VC_TO_POST,     \* voice_channel_id -> message_id
  chans,          \* temp voice channels that exist in the guild (guild.get_channel)
  nCreated,       \* temp voice channels created so far
  creating,       \* rally creation handlers suspended at an await
  loc,            \* member.voice.channel of each user, as the cache has it
  botMember,      \* the channel whose members include the bot, as the cache has it
  voice,          \* guild.voice_client
  finishedQ,      \* _on_playback_finished tasks handed to the loop, not yet run
  calls,          \* voice command handlers suspended at an await
  VOICE_STATE,    \* VOICE_STATE.get(guild_id)
  idleTasks,      \* _idle_disconnect_later tasks
  postTasks,      \* _disconnect_after_play tasks
  graceTasks,     \* schedule_delete_if_empty tasks
  periodic,       \* _periodic_activity_check: "asleep" in its sleep of 60 s, "due"
                  \*   with a round to run in this tick, "stopped" once ended
  ENABLE_VOICE,   \* the feature flag
  TEMP_VC_CATEGORY_ID, \* the configured category id (0: none configured)
  cmdsLeft,       \* voice commands the run may still issue
  updatesLeft,    \* voice-state changes of users the run may still make
  joinsLeft,      \* join forms the run may still submit
  rallyCap,       \* rallies the run may create
  emptyFor,       \* history: ticks each temp channel has been empty for, and whether
                  \*   it is empty because its last member left
  stayOn,         \* history: /stay succeeded and no /leave since
  lastOp,         \* history: what the last step completed: a voice operation, a
                  \*   deletion task that woke and kept the channel ("kept") or
                  \*   ended with an error nobody caught ("raised"), a round of the
                  \*   periodic check whose error was caught ("caught"),
                  \*   or the answer to a command that was refused
  td,             \* history: the creation-time check and the delete_rally_for_vc
                  \*   calls of each channel
  streams,        \* history: the audio streams started so far, and how many of
                  \*   them a later play request stopped
  form            \* history: the join form submitted last, its answer, and the
                  \*   channel its rally had

rvars == <<RALLIES, VC_TO_POST, chans, nCreated, creating>>
mvars == <<loc, botMember>>
cvars == <<voice, finishedQ, calls>>
bvars == <<VOICE_STATE, idleTasks, postTasks, graceTasks>>
hvars == <<td, streams, form>>
evars == <<ENABLE_VOICE, TEMP_VC_CATEGORY_ID, cmdsLeft, updatesLeft, joinsLeft, rallyCap>>
vars == <<RALLIES, VC_TO_POST, chans, nCreated, creating, loc, botMember, voice,
          finishedQ, calls, VOICE_STATE, idleTasks, postTasks, graceTasks,
          periodic, ENABLE_VOICE, TEMP_VC_CATEGORY_ID, cmdsLeft, updatesLeft, joinsLeft,
          rallyCap,
          emptyFor, stayOn, lastOp, td, streams, form>>

\* --------------------------------------------------------- data model
Participant(uid, tt, tier, dragon, cap) ==
  [user_id |-> uid, troop_type |-> tt, troop_tier |-> tier,
   rally_dragon |-> dragon, capacity_value |-> cap]

\* (a registration that leaves the roster empty; used to test C18)
\* keep_power .. idle_and_scouted as one value: what the KEEP form held, or
\* the defaults of the dataclass for an SOP rally
KeepDetails(kind) == IF kind = "KEEP" THEN "entered" ELSE "unset"

RallyEmptyRoster(mid, author, kind, vc) ==
  [message_id |-> mid, guild_id |-> "guild", channel_id |-> "origin",
   creator_id |-> author, rally_kind |-> kind, details |-> KeepDetails(kind),
   temp_vc_id |-> vc, temp_vc_invite_url |-> InviteUrl(vc),
   participants |-> <<>>]

\* a record that takes the channel of the first rally (used to test C36)
RallyOfFirstChannel(mid, author, kind, vc) ==
  [message_id |-> mid, guild_id |-> "guild", channel_id |-> "origin",
   creator_id |-> author, rally_kind |-> kind, details |-> KeepDetails(kind),
   temp_vc_id |-> 1, temp_vc_invite_url |-> InviteUrl(1),
   participants |-> (author :> Participant(author, "Cavalry", "T10", FALSE, 0))]

\* There is one guild, and the rallies are posted in one text channel.
Rally(mid, author, kind, vc) ==
  [message_id |-> mid, guild_id |-> "guild", channel_id |-> "origin",
   creator_id |-> author, rally_kind |-> kind, details |-> KeepDetails(kind),
   temp_vc_id |-> vc, temp_vc_invite_url |-> InviteUrl(vc),
   participants |-> (author :> Participant(author, "Cavalry", "T10", FALSE, 0))]

\* a GuildVoiceState; last_activity is kept as the age of the activity
\* (now - last_activity, negative when it lies in the future) and
\* connection_failure_cooldown_until as the ticks it still lasts
GuildVoiceState == [present |-> TRUE, last_activity |-> 0, cooldown |-> 0]
NoVoiceState == [present |-> FALSE, last_activity |-> 0, cooldown |-> 0]

NoVoice == [st |-> "none", ch |-> None, playing |-> FALSE]

\* len(ch.members): the users and the bot the cache shows in channel ch
NonBot(l, ch) == {u \in Users : l[u] = ch}
Members(l, bm, ch) == NonBot(l, ch) \cup (IF bm = ch THEN {Bot} ELSE {})

\* ------------------------------------------- the per-guild voice state
\* The four variables every voice helper reads and writes, as one value.
Cur == [vs |-> VOICE_STATE, idle |-> idleTasks, post |-> postTasks, grace |-> graceTasks]

Apply(B) ==
  /\ VOICE_STATE' = B.vs
  /\ idleTasks' = B.idle
  /\ postTasks' = B.post
  /\ graceTasks' = B.grace

\* a replacement that forgets the task the slot held without cancelling it
\* (used to test C34)
ForgetWithoutCancel(S) == {[t EXCEPT !.tracked = FALSE] : t \in S}

\* task.cancel() on the task a slot of the state holds.  A task asleep ends at
\* once (its handler only logs); a task awaiting a platform call is left to
\* receive the CancelledError at that await.
Cancel(S) ==
  {t \in S : ~t.tracked}
    \cup {[t EXCEPT !.tracked = FALSE, !.cancelled = TRUE] :
            t \in {x \in S : x.tracked /\ x.pc \notin {"start", "sleep"}}}

NewIdle == [pc |-> "start", rem |-> 0, tracked |-> TRUE, cancelled |-> FALSE]
\* (history: during is the number of the stream that plays when the task is made)
NewPost == [pc |-> "sleep", rem |-> DISCONNECT_AFTER_PLAY_SECS, tracked |-> TRUE,
            cancelled |-> FALSE, touched |-> FALSE,
            during |-> IF voice.playing THEN streams.started ELSE 0]
NewGrace(ch, tr) == [ch |-> ch, pc |-> "sleep", rem |-> DELETE_VC_IF_EMPTY_AFTER_SECS,
                     tracked |-> tr, cancelled |-> FALSE, mid |-> None, stale |-> FALSE]

_cancel_guild_voice_tasks(B) ==
  IF B.vs.present
  THEN [B EXCEPT !.idle = Cancel(@), !.post = Cancel(@), !.grace = Cancel(@)]
  ELSE B

_clean_guild_voice_state(B) ==
  [_cancel_guild_voice_tasks(B) EXCEPT !.vs = NoVoiceState]

\* history only: the post-playback tasks asleep at an activity
MarkTouched(S) == {IF t.pc = "sleep" THEN [t EXCEPT !.touched = TRUE] ELSE t : t \in S}

_touch_activity(B) ==
  [B EXCEPT !.vs = GuildVoiceState,
            !.idle = Cancel(@) \cup {NewIdle},
            !.post = MarkTouched(@)]

\* _on_playback_finished runs on the loop (lines 403-409)
_on_playback_finished(B) ==
  LET B1 == _touch_activity(B)
  IN [B1 EXCEPT !.post = Cancel(@) \cup {NewPost}]

\* a callback that runs the handler itself, in the player's thread (used to
\* test C26)
AfterPlayRunsHandler(B) == _on_playback_finished(B)

\* _after_play, on the audio thread (lines 527-533): it logs and hands the
\* coroutine to the loop; of the voice state it changes nothing
_after_play(B) == B

\* -------------------------------------------------- platform effects
\* The stream of a voice client that is stopped or disconnected ends, and its
\* after-callback hands one _on_playback_finished to the loop (lines 527-533).
AfterStop(v, q) == IF v.playing THEN q + 1 ELSE q

\* What a disconnect() that has ended leaves of the client: nothing (it
\* returned, or raised after tearing the connection down), or the client as it
\* was (it raised before).
Disconnected(v, gone) == IF gone THEN NoVoice ELSE v

\* A temp channel leaves the guild: whoever is in it is dropped from voice.
\* The voice-state events of the dropped users run on_voice_state_update (the
\* channel is gone, so only line 893 acts); the bot's own runs line 887.
ChannelGone(ch, B) ==
  /\ chans' = chans \ {ch}
  /\ loc' = [u \in Users |-> IF loc[u] = ch THEN None ELSE loc[u]]
  /\ botMember' = IF botMember = ch THEN None ELSE botMember
  /\ voice' = IF voice.st # "none" /\ voice.ch = ch THEN NoVoice ELSE voice
  /\ finishedQ' = IF voice.st # "none" /\ voice.ch = ch THEN AfterStop(voice, finishedQ)
                  ELSE finishedQ
  /\ LET B1 == IF botMember = ch THEN _clean_guild_voice_state(B) ELSE B
         B2 == IF NonBot(loc, ch) # {} THEN _touch_activity(B1) ELSE B1
     IN Apply(B2)

\* history: the step is not the completion of a voice operation
NotOp == lastOp' = "none"

\* history: stay mode lasts while the bot stays connected
StayFrame == stayOn' = (stayOn /\ voice'.st = "connected")

\* history: a temp channel that has a member has been empty for 0 ticks, and
\* an indexed one whose last member leaves has been left
EmptyFrame ==
  emptyFor' = [c \in TempChans |->
                 IF Members(loc', botMember', c) # {}
                 THEN [ticks |-> 0, left |-> FALSE]
                 ELSE [emptyFor[c] EXCEPT
                         !.left = @ \/ (Members(loc, botMember, c) # {}
                                          /\ c \in DOMAIN VC_TO_POST)]]

\* ------------------------------------------------- category resolution
NotConfigured == 0                  \* TEMP_VC_CATEGORY_ID unset: int("0")
Stage == MaxRallies + 3             \* a stage channel of the guild
CatRallies == 21                    \* categories of the guild
CatText == 22
CatVoice == 23
NewCategory == 24                   \* what guild.create_category("Rallies") returns
ForeignCat == 29                    \* a category of another guild
General == 31                       \* a text channel in a category
Loose == 32                         \* a text channel outside every category

\* the channels guild.get_channel finds, with their class and .category
GuildChannels ==
  (CatRallies :> [type |-> "category", category |-> None])
  @@ (CatText :> [type |-> "category", category |-> None])
  @@ (CatVoice :> [type |-> "category", category |-> None])
  @@ (General :> [type |-> "text", category |-> CatText])
  @@ (Loose :> [type |-> "text", category |-> None])
  @@ (Lobby :> [type |-> "voice", category |-> CatVoice])
  @@ (Lounge :> [type |-> "voice", category |-> None])
  @@ (Stage :> [type |-> "stage", category |-> CatVoice])

ChannelType(id) == IF id \in DOMAIN GuildChannels THEN GuildChannels[id].type ELSE "none"
CategoryOf(id) == IF id \in DOMAIN GuildChannels THEN GuildChannels[id].category ELSE None

\* a resolution that looks at the invoking channel first (used to test C30)
PickContextFirst(configured, context_channel, owner_channel) ==
  IF ChannelType(context_channel) \in {"text", "voice"} /\ CategoryOf(context_channel) # None
  THEN CategoryOf(context_channel)
  ELSE IF configured # NotConfigured /\ ChannelType(configured) = "category"
  THEN configured
  ELSE IF ChannelType(owner_channel) = "voice" /\ CategoryOf(owner_channel) # None
  THEN CategoryOf(owner_channel)
  ELSE NewCategory

\* lines 146-154; owner_channel is owner.voice.channel, None out of voice
pick_or_create_category(configured, context_channel, owner_channel) ==
  IF configured # NotConfigured /\ ChannelType(configured) = "category"
  THEN configured
  ELSE IF ChannelType(context_channel) \in {"text", "voice"} /\ CategoryOf(context_channel) # None
  THEN CategoryOf(context_channel)
  ELSE IF owner_channel # None /\ ChannelType(owner_channel) = "voice"
          /\ CategoryOf(owner_channel) # None
  THEN CategoryOf(owner_channel)
  ELSE NewCategory

\* ------------------------------------------------------ rally creation
\* KeepForm.on_submit and rally_sop, up to the await of create_or_refresh_vc_invite:
\* ensure_temp_vc has made the channel (or raised: the error is answered).
\* context is interaction.channel, a text channel (lines 766, 808); cat is the
\* category the channel is made in (line 163).
RallyCreateBegin(h, kind, context, ok) ==
  /\ NotOp
  /\ nCreated < rallyCap
  /\ IF ok
     THEN /\ nCreated' = nCreated + 1
          /\ chans' = chans \cup {nCreated + 1}
          /\ creating' = creating \cup
               {[author |-> h, kind |-> kind, vc |-> nCreated + 1, pc |-> "invite",
                 context |-> context,
                 cat |-> pick_or_create_category(TEMP_VC_CATEGORY_ID, context, loc[h])]}
     ELSE UNCHANGED <<nCreated, chans, creating>>
  /\ UNCHANGED <<RALLIES, VC_TO_POST, mvars, cvars, bvars, periodic, evars,
                 emptyFor, hvars>>
  /\ StayFrame

\* ... the invite and the placeholder post are made, the record is registered
\* and indexed (lines 774-793); a failure of either call ends the handler.
RallyCreateRegister(cr, ok) ==
  /\ NotOp
  /\ cr \in creating /\ cr.pc = "invite"
  /\ IF ok
     THEN /\ RALLIES' = (MessageId(cr.vc) :> Rally(MessageId(cr.vc), cr.author, cr.kind, cr.vc))
                          @@ RALLIES
          /\ VC_TO_POST' = (cr.vc :> MessageId(cr.vc)) @@ VC_TO_POST
          /\ creating' = (creating \ {cr}) \cup {[cr EXCEPT !.pc = "announce"]}
     ELSE /\ creating' = creating \ {cr}
          /\ UNCHANGED <<RALLIES, VC_TO_POST>>
  /\ UNCHANGED <<chans, nCreated, mvars, cvars, bvars, periodic, evars,
                 emptyFor, hvars>>
  /\ StayFrame

\* ... the post is edited, the call to action sent, the interaction answered,
\* and the empty-channel check is started, held by nobody (lines 795-800).
RallyCreateFinish(cr, ok) ==
  /\ NotOp
  /\ cr \in creating /\ cr.pc = "announce"
  /\ creating' = creating \ {cr}
  /\ graceTasks' = IF ok THEN graceTasks \cup {NewGrace(cr.vc, FALSE)} ELSE graceTasks
  /\ td' = [td EXCEPT ![cr.vc].armed = ok]
  /\ UNCHANGED <<RALLIES, VC_TO_POST, chans, nCreated, mvars, cvars, VOICE_STATE,
                 idleTasks, postTasks, periodic, evars, emptyFor, streams, form>>
  /\ StayFrame

\* ------------------------------------------------ on_voice_state_update
\* One round of the loop of lines 896-924, for channel ch, with the cache as
\* the event left it (l, bm) and the index idx.
VsuChannel(B, ch, l, bm, idx) ==
  IF ch = None \/ ch \notin DOMAIN idx THEN B
  ELSE IF Members(l, bm, ch) = {}
       THEN IF \E t \in B.grace : t.tracked
            THEN B
            ELSE [B EXCEPT !.vs = IF @.present THEN @ ELSE GuildVoiceState,
                           !.grace = @ \cup {NewGrace(ch, TRUE)}]
       ELSE [B EXCEPT !.grace = Cancel(@)]

\* history only: the deletions of ch still asleep when a member joins it
MarkStale(B, ch) ==
  [B EXCEPT !.grace = {IF t.ch = ch /\ t.pc = "sleep" THEN [t EXCEPT !.stale = TRUE] ELSE t :
                         t \in @}]

\* A user joins, leaves, moves or (to = loc[u]) mutes: the cache is updated
\* and the handler runs; it has no await.
UserVoiceUpdate(u, to) ==
  /\ NotOp
  /\ updatesLeft > 0
  /\ updatesLeft' = updatesLeft - 1
  /\ to \in ({None, Lobby, Lounge} \cup chans)
  /\ ~(to = None /\ loc[u] = None)
  /\ loc' = [loc EXCEPT ![u] = to]
  /\ LET B0 == IF to # None /\ to # loc[u] THEN MarkStale(Cur, to) ELSE Cur
         B1 == _touch_activity(B0)
         B2 == VsuChannel(B1, loc[u], loc', botMember, VC_TO_POST)
         B3 == VsuChannel(B2, to, loc', botMember, VC_TO_POST)
     IN Apply(B3)
  /\ UNCHANGED <<rvars, botMember, cvars, periodic, ENABLE_VOICE, TEMP_VC_CATEGORY_ID, rallyCap,
                 cmdsLeft, joinsLeft, hvars>>
  /\ EmptyFrame
  /\ StayFrame

\* The bot's own voice state reaches the cache after its client is gone
\* (lines 883-889).
BotVoiceUpdate ==
  /\ NotOp
  /\ botMember # None /\ voice.st # "connected"
  /\ botMember' = None
  /\ Apply(_clean_guild_voice_state(Cur))
  /\ UNCHANGED <<rvars, loc, cvars, periodic, evars, hvars>>
  /\ EmptyFrame
  /\ StayFrame

\* ------------------------------------------- empty-channel grace tasks
PopMid(idx, ch) == IF ch \in DOMAIN idx THEN idx[ch] ELSE None
Popped(idx, ch) == [c \in DOMAIN idx \ {ch} |-> idx[c]]

\* lines 872-874, without line 875
ClearRallyKeepsInvite(R, mid) ==
  IF mid # None /\ mid \in DOMAIN R
  THEN [R EXCEPT ![mid].temp_vc_id = None]
  ELSE R

\* (a teardown that also empties the roster; used to test C19)
ClearRallyDropsRoster(R, mid) ==
  IF mid # None /\ mid \in DOMAIN R
  THEN [R EXCEPT ![mid].temp_vc_id = None, ![mid].temp_vc_invite_url = None,
                 ![mid].participants = <<>>]
  ELSE R

\* lines 872-875
ClearRally(R, mid) ==
  IF mid # None /\ mid \in DOMAIN R
  THEN [R EXCEPT ![mid].temp_vc_id = None, ![mid].temp_vc_invite_url = None]
  ELSE R

\* history: a delete_rally_for_vc call for channel c ends: it returned, it
\* raised, or it was cut off by a cancellation before it reached line 872
TdEnd(c, how) ==
  td' = [td EXCEPT ![c].returned = IF how = "returned" THEN Min(@ + 1, 2) ELSE @,
                   ![c].cut = @ \/ how = "cut"]

\* (a check that trusts what the channel looked like while the task slept:
\* nobody has joined it since the task was made; used to test C23)
FoundEmptyWhenArmed(t) == t.ch \in chans /\ ~t.stale

\* lines 846-851: the task, awake, finds the channel in the guild and empty
FoundEmpty(t) == t.ch \in chans /\ Members(loc, botMember, t.ch) = {}

\* schedule_delete_if_empty wakes (lines 846-855) and, on an empty channel,
\* runs delete_rally_for_vc up to its first await (lines 859-868).
GraceFire(t) ==
  /\ t \in graceTasks /\ t.pc = "sleep" /\ t.rem = 0
  /\ lastOp' = IF FoundEmpty(t) THEN "none" ELSE "kept"
  /\ IF FoundEmpty(t)
     THEN /\ VC_TO_POST' = Popped(VC_TO_POST, t.ch)
          /\ graceTasks' = (graceTasks \ {t}) \cup
               {[t EXCEPT !.mid = PopMid(VC_TO_POST, t.ch),
                          !.pc = IF voice.st # "none" /\ voice.ch = t.ch
                                 THEN "disc" ELSE "delete"]}
     ELSE /\ graceTasks' = graceTasks \ {t}
          /\ UNCHANGED VC_TO_POST
  /\ UNCHANGED <<RALLIES, chans, nCreated, creating, mvars, cvars, VOICE_STATE, idleTasks,
                 postTasks, periodic, evars, emptyFor, hvars>>
  /\ StayFrame

\* delete_rally_for_vc after its try (lines 872-876): the task goes on to await
\* update_post, or returns when it popped no rally
AfterTry(t) ==
  IF t.mid # None /\ t.mid \in DOMAIN RALLIES THEN {[t EXCEPT !.pc = "post"]} ELSE {}
AfterTryTd(t) ==
  IF t.mid # None /\ t.mid \in DOMAIN RALLIES THEN UNCHANGED td ELSE TdEnd(t.ch, "returned")

\* the await of guild.voice_client.disconnect() of line 864 ends: it returned
\* (ok), or it raised, with the client gone or left as it was
GraceDiscDone(t, ok, gone) ==
  /\ NotOp
  /\ t \in graceTasks /\ t.pc = "disc" /\ ~t.cancelled
  /\ ok => gone
  /\ IF ok
     THEN \* line 865; cleaning the state cancels this very task when the state holds it
          /\ voice' = NoVoice
          /\ finishedQ' = AfterStop(voice, finishedQ)
          /\ Apply(_clean_guild_voice_state(
                     [Cur EXCEPT !.grace = (@ \ {t}) \cup {[t EXCEPT !.pc = "delete"]}]))
          /\ UNCHANGED <<RALLIES, td>>
     ELSE \* caught at line 869: vc.delete is skipped
          /\ RALLIES' = ClearRally(RALLIES, t.mid)
          /\ graceTasks' = (graceTasks \ {t}) \cup AfterTry(t)
          /\ AfterTryTd(t)
          /\ voice' = Disconnected(voice, gone)
          /\ finishedQ' = IF gone THEN AfterStop(voice, finishedQ) ELSE finishedQ
          /\ UNCHANGED <<VOICE_STATE, idleTasks, postTasks>>
  /\ UNCHANGED <<VC_TO_POST, chans, nCreated, creating, mvars, calls, periodic,
                 evars, emptyFor, streams, form>>
  /\ StayFrame

\* the await of vc.delete of line 868 ends: the channel is gone, or the call
\* raised (it always does on a channel already deleted) and line 869 caught it
GraceDeleteDone(t, ok) ==
  /\ NotOp
  /\ t \in graceTasks /\ t.pc = "delete" /\ ~t.cancelled
  /\ ok => t.ch \in chans
  /\ RALLIES' = ClearRally(RALLIES, t.mid)
  /\ AfterTryTd(t)
  /\ IF ok
     THEN ChannelGone(t.ch, [Cur EXCEPT !.grace = (@ \ {t}) \cup AfterTry(t)])
     ELSE /\ graceTasks' = (graceTasks \ {t}) \cup AfterTry(t)
          /\ UNCHANGED <<chans, mvars, voice, finishedQ, VOICE_STATE, idleTasks, postTasks>>
  /\ UNCHANGED <<VC_TO_POST, nCreated, creating, calls, periodic, evars, streams, form>>
  /\ EmptyFrame
  /\ StayFrame

\* the await of update_post of line 876 ends: the post was edited or could not
\* be fetched (ok; line 246 swallows that error), or msg.edit raised (line 248
\* is in no try, and nothing above it catches)
GracePostDone(t, ok) ==
  /\ lastOp' = IF ok THEN "none" ELSE "raised"
  /\ t \in graceTasks /\ t.pc = "post" /\ ~t.cancelled
  /\ graceTasks' = graceTasks \ {t}
  /\ TdEnd(t.ch, IF ok THEN "returned" ELSE "raised")
  /\ UNCHANGED <<rvars, mvars, cvars, VOICE_STATE, idleTasks, postTasks, periodic,
                 evars, emptyFor, streams, form>>
  /\ StayFrame

\* a cancelled task receives its CancelledError at the await it is suspended
\* at; no handler of delete_rally_for_vc catches it.  The platform call it was
\* awaiting has taken effect (eff) or not.
GraceCancelled(t, eff) ==
  /\ NotOp
  /\ t \in graceTasks /\ t.cancelled
  /\ TdEnd(t.ch, IF t.pc \in {"disc", "delete"} THEN "cut" ELSE "raised")
  /\ IF eff /\ t.pc = "delete" /\ t.ch \in chans
     THEN ChannelGone(t.ch, [Cur EXCEPT !.grace = @ \ {t}])
     ELSE /\ graceTasks' = graceTasks \ {t}
          /\ voice' = IF eff /\ t.pc = "disc" THEN NoVoice ELSE voice
          /\ finishedQ' = IF eff /\ t.pc = "disc" THEN AfterStop(voice, finishedQ)
                          ELSE finishedQ
          /\ UNCHANGED <<chans, mvars, VOICE_STATE, idleTasks, postTasks>>
  /\ UNCHANGED <<RALLIES, VC_TO_POST, nCreated, creating, calls, periodic,
                 evars, streams, form>>
  /\ EmptyFrame
  /\ StayFrame

\* ------------------------------------------------- _ensure_voice_ready
StayAhead == 10080      \* 3600 * 24 * 7 seconds, in ticks

FreeId(S) == CHOOSE i \in 1..MaxCalls :
               /\ \A c \in S : c.id # i
               /\ \A j \in 1..(i - 1) : \E c \in S : c.id = j

\* a handler suspended at an await
NewCall(id, cmd, u, pc, target, secs) ==
  [id |-> id, cmd |-> cmd, user |-> u, pc |-> pc, target |-> target, rem |-> secs]

\* lines 493-495 and 499-501: the cooldown is written into the state, and the
\* state is then deleted
ConnectFailed(B) ==
  _clean_guild_voice_state(
    [B EXCEPT !.vs = [(IF @.present THEN @ ELSE GuildVoiceState)
                        EXCEPT !.cooldown = CooldownTicks]])

\* lines 972-977 of stay_command
StayTail(B) ==
  _touch_activity(
    [B EXCEPT !.vs = [(IF @.present THEN @ ELSE GuildVoiceState)
                        EXCEPT !.last_activity = 0 - StayAhead],
              !.idle = Cancel(@)])

\* lines 514-537 of play_audio_in_member_vc, on the voice client v: what it
\* leaves of the client, of the notifications and of the state B
PlayVoice(v) == IF v.st = "connected" THEN [v EXCEPT !.playing = TRUE] ELSE v
PlayState(v, B) == IF v.st = "connected" THEN _touch_activity(B) ELSE B

\* _ensure_voice_ready has returned the client v to the command cmd of user u,
\* with the state B; the command runs on to its next await or to its end.
AfterEnsure(id, cmd, u, v, B, rest, secs) ==
  /\ cmd = "play" => AfterStop(v, finishedQ) < MaxFinished
  /\ voice' = IF cmd = "play" THEN PlayVoice(v) ELSE v
  /\ finishedQ' = IF cmd = "play" THEN AfterStop(v, finishedQ) ELSE finishedQ
  /\ Apply(IF cmd = "play" THEN PlayState(v, B)
           ELSE IF cmd = "stay" THEN StayTail(B) ELSE B)
  /\ calls' = IF cmd = "hold"
              THEN rest \cup {NewCall(id, cmd, u, "hold_msg", None, secs)}
              ELSE rest
  /\ stayOn' = ((stayOn \/ cmd = "stay") /\ v.st = "connected")
  /\ lastOp' = "connected"
  /\ streams' = IF cmd = "play" /\ v.st = "connected"
                THEN [started |-> streams.started + 1,
                      stopped |-> streams.stopped + (IF v.playing THEN 1 ELSE 0)]
                ELSE streams

\* _ensure_voice_ready has failed in its try (lines 491-502)
EnsureFailed(v, B, rest) ==
  /\ voice' = v
  /\ Apply(ConnectFailed(B))
  /\ calls' = rest
  /\ lastOp' = "failed"
  /\ stayOn' = (stayOn /\ v.st = "connected")
  /\ UNCHANGED <<finishedQ, streams>>

\* the permissions of the bot in a voice channel, as far as lines 452-457 read
\* them
Permissions == [connect : BOOLEAN, speak : BOOLEAN]
Granted == [connect |-> TRUE, speak |-> TRUE]

\* lines 453-457: the names of the permissions the bot lacks
Missing(perms) ==
  (IF ~perms.connect THEN <<"Connect">> ELSE <<>>) \o
  (IF ~perms.speak THEN <<"Speak">> ELSE <<>>)

\* ", ".join(missing) of line 460
CommaJoin(names) ==
  IF names = <<>> THEN ""
  ELSE IF Len(names) = 1 THEN names[1]
  ELSE names[1] \o ", " \o names[2]

\* a command that goes on to connect without the permissions (used to test C38)
RefusalBeforePermissions(cmd, inVoice, enabled, cooling, url, perms) ==
  IF cmd # "hold" /\ ~inVoice THEN cmd \o ":join_first"
  ELSE IF cmd = "play" /\ ~enabled THEN cmd \o ":url"
  ELSE IF cmd = "play" /\ ~url THEN cmd \o ":no_url"
  ELSE IF cooling THEN cmd \o ":cooldown"
  ELSE IF ~enabled THEN cmd \o ":disabled"
  ELSE IF ~inVoice THEN cmd \o ":join_first"
  ELSE "none"

\* The checks a voice command makes before anything is asked of the platform,
\* in the order the code makes them: the answer of the command that is
\* refused, "none" for the one that goes on.  The countdown button checks the
\* member's channel and the flag itself (lines 645-652, the answer of line 650
\* carries the audio url); /stay checks the member's channel (lines 963-964);
\* _ensure_voice_ready checks the cooldown, the flag and the member's channel
\* (lines 429-441) and then the bot's Connect and Speak permissions in the
\* member's channel (lines 452-460).  The button also refuses an empty audio
\* url (lines 655-656), as play_audio_in_member_vc would (lines 505-507).
Refusal(cmd, inVoice, enabled, cooling, url, perms) ==
  IF cmd # "hold" /\ ~inVoice THEN cmd \o ":join_first"
  ELSE IF cmd = "play" /\ ~enabled THEN cmd \o ":url"
  ELSE IF cmd = "play" /\ ~url THEN cmd \o ":no_url"
  ELSE IF cooling THEN cmd \o ":cooldown"
  ELSE IF ~enabled THEN cmd \o ":disabled"
  ELSE IF ~inVoice THEN cmd \o ":join_first"
  ELSE IF Missing(perms) # <<>> THEN cmd \o ":I need " \o CommaJoin(Missing(perms))
  ELSE "none"

\* A command that needs the voice client starts: the countdown button ("play"),
\* /stay or /vc_hold, by user u.  The handler runs to its first await: the
\* checks of the command and of _ensure_voice_ready (lines 429-460), then the
\* move, the connect, or the return of the client the bot already has.
CmdBegin(u, cmd, secs, url, perms) ==
  /\ Cardinality(calls) < MaxCalls
  /\ cmdsLeft > 0
  /\ cmdsLeft' = cmdsLeft - 1
  /\ cmd # "hold" => secs = 1
  /\ UNCHANGED <<rvars, mvars, periodic, ENABLE_VOICE, TEMP_VC_CATEGORY_ID, rallyCap, updatesLeft,
                 joinsLeft, td, form>>
  /\ EmptyFrame
  /\ IF Refusal(cmd, loc[u] # None, ENABLE_VOICE,
                VOICE_STATE.present /\ VOICE_STATE.cooldown > 0, url, perms) # "none"
     THEN \* answered with an error
          /\ lastOp' = Refusal(cmd, loc[u] # None, ENABLE_VOICE,
                               VOICE_STATE.present /\ VOICE_STATE.cooldown > 0, url, perms)
          /\ UNCHANGED <<cvars, bvars, stayOn, streams>>
     ELSE IF voice.st = "connected"
     THEN IF voice.ch # loc[u]
          THEN /\ calls' = calls \cup {NewCall(FreeId(calls), cmd, u, "move", loc[u], secs)}
               /\ NotOp
               /\ UNCHANGED <<voice, finishedQ, bvars, stayOn, streams>>
          ELSE /\ AfterEnsure(FreeId(calls), cmd, u, voice, _touch_activity(Cur), calls, secs)
     ELSE IF voice.st # "none"
     THEN \* vc_target.connect raises: the guild already has a voice client
          EnsureFailed(voice, _clean_guild_voice_state(Cur), calls)
     ELSE /\ voice' = [st |-> "connecting", ch |-> loc[u], playing |-> FALSE]
          /\ Apply(_clean_guild_voice_state(Cur))
          /\ calls' = calls \cup {NewCall(FreeId(calls), cmd, u, "connect", loc[u], secs)}
          /\ NotOp
          /\ UNCHANGED <<finishedQ, stayOn, streams>>

\* the await of vc_target.connect of line 478 ends: connected ("ok"), raised
\* ("raise", the client is discarded), or returned a client that does not get
\* connected within the 15 s of lines 481-489 ("stuck")
ConnectDone(c, how) ==
  /\ c \in calls /\ c.pc = "connect"
  /\ how = "ok" => voice.st = "connecting" /\ voice.ch = c.target
  /\ UNCHANGED <<rvars, loc, periodic, evars, td, form>>
  /\ IF how = "ok"
     THEN /\ botMember' = c.target
          /\ AfterEnsure(c.id, c.cmd, c.user, [st |-> "connected", ch |-> c.target, playing |-> FALSE],
                         _touch_activity(Cur), calls \ {c}, c.rem)
     ELSE /\ botMember' = IF how = "stuck" /\ voice.st = "connecting" THEN c.target
                          ELSE botMember
          /\ EnsureFailed(IF how = "stuck" /\ voice.st = "connecting"
                          THEN [voice EXCEPT !.st = "stale"]
                          ELSE IF voice.st = "connecting" THEN NoVoice ELSE voice,
                          Cur, calls \ {c})
  /\ EmptyFrame

\* the await of voice.move_to of line 467 ends
MoveDone(c, ok) ==
  /\ c \in calls /\ c.pc = "move"
  /\ UNCHANGED <<rvars, loc, periodic, evars, td, form>>
  /\ IF ok
     THEN /\ botMember' = IF voice.st = "connected" THEN c.target ELSE botMember
          /\ AfterEnsure(c.id, c.cmd, c.user,
                         IF voice.st = "connected" THEN [voice EXCEPT !.ch = c.target]
                         ELSE voice,
                         _touch_activity(Cur), calls \ {c}, c.rem)
     ELSE /\ UNCHANGED botMember
          /\ EnsureFailed(voice, Cur, calls \ {c})
  /\ EmptyFrame

\* ------------------------------------------------------------ /vc_hold
\* the await of followup.send of line 938 ends; lines 942-949 set the activity
\* into the future, cancel the idle task and sleep
HoldArm(c, ok) ==
  /\ c \in calls /\ c.pc = "hold_msg"
  /\ NotOp
  /\ IF ok
     THEN /\ calls' = (calls \ {c}) \cup {[c EXCEPT !.pc = "hold_sleep"]}
          /\ Apply([Cur EXCEPT
               !.vs = [(IF @.present THEN @ ELSE GuildVoiceState)
                         EXCEPT !.last_activity = 0 - (c.rem + 2 * VOICE_IDLE_TIMEOUT_SECS)],
               !.idle = Cancel(@)])
     ELSE /\ calls' = calls \ {c}
          /\ UNCHANGED bvars
  /\ UNCHANGED <<rvars, mvars, voice, finishedQ, periodic, evars, emptyFor, hvars>>
  /\ StayFrame

\* the sleep of line 949 ends; the finally of lines 952-955
HoldWake(c) ==
  /\ c \in calls /\ c.pc = "hold_sleep" /\ c.rem = 0
  /\ NotOp
  /\ calls' = calls \ {c}
  /\ Apply(_touch_activity(Cur))
  /\ UNCHANGED <<rvars, mvars, voice, finishedQ, periodic, evars, emptyFor, hvars>>
  /\ StayFrame

\* -------------------------------------------------------------- /leave
\* leave_command up to the await of disconnect (lines 983-989)
LeaveBegin(u) ==
  /\ Cardinality(calls) < MaxCalls
  /\ cmdsLeft > 0
  /\ cmdsLeft' = cmdsLeft - 1
  /\ NotOp
  /\ calls' = IF voice.st = "connected"
              THEN calls \cup {NewCall(FreeId(calls), "leave", u, "disc", None, 1)}
              ELSE calls
  /\ stayOn' = FALSE
  /\ UNCHANGED <<rvars, mvars, voice, finishedQ, bvars, periodic, ENABLE_VOICE,
                 TEMP_VC_CATEGORY_ID, rallyCap, updatesLeft, joinsLeft, emptyFor, hvars>>

\* ... the disconnect ends, with the client gone (ok) or left as it was;
\* lines 990 and 994 clean the state either way
LeaveDone(c, ok) ==
  /\ c \in calls /\ c.pc = "disc"
  /\ calls' = calls \ {c}
  /\ voice' = Disconnected(voice, ok)
  /\ finishedQ' = IF ok THEN AfterStop(voice, finishedQ) ELSE finishedQ
  /\ Apply(_clean_guild_voice_state(Cur))
  /\ stayOn' = FALSE
  /\ lastOp' = "leave"
  /\ UNCHANGED <<rvars, mvars, periodic, evars, emptyFor, hvars>>

\* (IdleVerdictWhilePlaying: the same without the is_playing test of line 348)
IdleVerdictWhilePlaying(v, l) ==
  IF v.st = "none" THEN "clean"
  ELSE IF v.st # "connected" THEN "clean"
  ELSE IF NonBot(l, v.ch) = {} THEN "disc" ELSE "end"

\* ------------------------------------------------ _idle_disconnect_later
\* the final check of the idle task (lines 343-368) on the voice client v:
\* "disc" awaits the disconnect, "clean" cleans the state, "end" does nothing
IdleVerdict(v, l) ==
  IF v.st = "none" THEN "clean"
  ELSE IF v.st # "connected" THEN "clean"
  ELSE IF v.playing THEN "end"
  ELSE IF NonBot(l, v.ch) = {} THEN "disc" ELSE "end"

\* One round of the loop of lines 321-338, run by a task that starts or whose
\* sleep has ended, and the final check when the loop breaks.  The task that
\* refreshes the activity cancels itself (it is the task the state holds) and
\* ends at its next await.
IdleRun(t) ==
  /\ t \in idleTasks /\ ~t.cancelled
  /\ t.pc = "start" \/ (t.pc = "sleep" /\ t.rem = 0)
  /\ NotOp
  /\ LET B0 == [Cur EXCEPT !.vs = IF @.present THEN @ ELSE GuildVoiceState]
         rest == [B0 EXCEPT !.idle = @ \ {t}]
     IN IF voice.st # "none" /\ NonBot(loc, voice.ch) # {}
        THEN Apply(LET B1 == _touch_activity(B0)
                   IN IF t.tracked THEN B1
                      ELSE [B1 EXCEPT !.idle = (@ \ {t}) \cup {[t EXCEPT !.pc = "sleep", !.rem = 1]}])
        ELSE IF VOICE_IDLE_TIMEOUT_SECS - B0.vs.last_activity > 0
        THEN Apply([rest EXCEPT !.idle = @ \cup {[t EXCEPT !.pc = "sleep", !.rem = 1]}])
        ELSE IF IdleVerdict(voice, loc) = "clean"
        THEN Apply(_clean_guild_voice_state(rest))
        ELSE IF IdleVerdict(voice, loc) = "disc"
        THEN Apply([rest EXCEPT !.idle = @ \cup {[t EXCEPT !.pc = "disc"]}])
        ELSE Apply(rest)
  /\ UNCHANGED <<rvars, mvars, cvars, periodic, evars, emptyFor, hvars>>
  /\ StayFrame

\* the await of vc_client.disconnect of line 355 ends, with the client gone
\* (ok) or left as it was; lines 356 and 359 clean the state either way
IdleDiscDone(t, ok) ==
  /\ t \in idleTasks /\ t.pc = "disc" /\ ~t.cancelled
  /\ lastOp' = "left"
  /\ voice' = Disconnected(voice, ok)
  /\ finishedQ' = IF ok THEN AfterStop(voice, finishedQ) ELSE finishedQ
  /\ Apply(_clean_guild_voice_state([Cur EXCEPT !.idle = @ \ {t}]))
  /\ UNCHANGED <<rvars, mvars, calls, periodic, evars, emptyFor, hvars>>
  /\ StayFrame

\* a cancelled idle or post-playback task receives its CancelledError at the
\* await of the disconnect, which has taken effect (eff) or not
TimerCancelled(t, eff) ==
  /\ t \in idleTasks \cup postTasks /\ t.cancelled
  /\ NotOp
  /\ idleTasks' = idleTasks \ {t}
  /\ postTasks' = postTasks \ {t}
  /\ voice' = Disconnected(voice, eff)
  /\ finishedQ' = IF eff THEN AfterStop(voice, finishedQ) ELSE finishedQ
  /\ UNCHANGED <<rvars, mvars, calls, VOICE_STATE, graceTasks, periodic, evars,
                 emptyFor, hvars>>
  /\ StayFrame

\* ------------------------------------------------ _disconnect_after_play
\* the check of lines 374-398 when the sleep of the post-playback task ends
\* (PostVerdictAnyMembers: the same without the member check of lines 382-383)
PostVerdictAnyMembers(v, l) ==
  IF v.st = "none" THEN "clean"
  ELSE IF v.st # "connected" THEN "clean"
  ELSE IF v.playing THEN "end"
  ELSE "disc"

\* (PostVerdictWhilePlaying: the same without the is_playing test of line 379)
PostVerdictWhilePlaying(v, l) ==
  IF v.st = "none" THEN "clean"
  ELSE IF v.st # "connected" THEN "clean"
  ELSE IF NonBot(l, v.ch) = {} THEN "disc" ELSE "end"

PostVerdict(v, l) ==
  IF v.st = "none" THEN "clean"
  ELSE IF v.st # "connected" THEN "clean"
  ELSE IF v.playing THEN "end"
  ELSE IF NonBot(l, v.ch) = {} THEN "disc" ELSE "end"

PostFire(t) ==
  /\ t \in postTasks /\ t.pc = "sleep" /\ t.rem = 0 /\ ~t.cancelled
  /\ NotOp
  /\ LET rest == [Cur EXCEPT !.post = @ \ {t}]
     IN IF PostVerdict(voice, loc) = "clean"
        THEN Apply(_clean_guild_voice_state(rest))
        ELSE IF PostVerdict(voice, loc) = "disc"
        THEN Apply([rest EXCEPT !.post = @ \cup {[t EXCEPT !.pc = "disc"]}])
        ELSE Apply(rest)
  /\ UNCHANGED <<rvars, mvars, cvars, periodic, evars, emptyFor, hvars>>
  /\ StayFrame

\* the await of vc_client.disconnect of line 386 ends, with the client gone
\* (ok) or left as it was; lines 387 and 390 clean the state either way
PostDiscDone(t, ok) ==
  /\ t \in postTasks /\ t.pc = "disc" /\ ~t.cancelled
  /\ lastOp' = "left"
  /\ voice' = Disconnected(voice, ok)
  /\ finishedQ' = IF ok THEN AfterStop(voice, finishedQ) ELSE finishedQ
  /\ Apply(_clean_guild_voice_state([Cur EXCEPT !.post = @ \ {t}]))
  /\ UNCHANGED <<rvars, mvars, calls, periodic, evars, emptyFor, hvars>>
  /\ StayFrame

\* ------------------------------------------------------------ playback
\* the stream ends by itself; its after-callback hands the notification over
PlaybackEnds ==
  /\ voice.playing
  /\ NotOp
  /\ voice' = [voice EXCEPT !.playing = FALSE]
  /\ finishedQ' = finishedQ + 1
  /\ Apply(_after_play(Cur))
  /\ UNCHANGED <<rvars, mvars, calls, periodic, evars, emptyFor, hvars>>
  /\ StayFrame

PlaybackFinished ==
  /\ finishedQ > 0
  /\ NotOp
  /\ finishedQ' = finishedQ - 1
  /\ Apply(_on_playback_finished(Cur))
  /\ UNCHANGED <<rvars, mvars, voice, calls, periodic, evars, emptyFor, hvars>>
  /\ StayFrame

\* the platform drops the bot's voice connection (it is disconnected by a
\* moderator, or the library gives up on a dead client)
VoiceLost ==
  /\ voice.st \in {"connected", "stale"}
  /\ NotOp
  /\ voice' = NoVoice
  /\ finishedQ' = AfterStop(voice, finishedQ)
  /\ UNCHANGED <<rvars, mvars, calls, bvars, periodic, evars, emptyFor, hvars>>
  /\ StayFrame

\* --------------------------------------------- _periodic_activity_check
\* one round of the loop of lines 1005-1017, with _check_user_activity
PeriodicState(B, v, l) ==
  IF ~B.vs.present THEN B
  ELSE IF v.st = "connected"
       THEN IF NonBot(l, v.ch) # {} THEN _touch_activity(B) ELSE B
       ELSE _clean_guild_voice_state(B)

\* a loop that an error of one round would end (used to test C28)
RoundEndsUncaught(ok) == IF ok THEN "asleep" ELSE "stopped"

\* lines 1017-1020: the round sleeps 60 s, and so does the handler of an error
RoundEnds(ok) == "asleep"

\* ok = FALSE: the check of the guild raises before it changes anything
PeriodicCheck(ok) ==
  /\ periodic = "due"
  /\ lastOp' = IF ok THEN "none" ELSE "caught"
  /\ periodic' = RoundEnds(ok)
  /\ IF ok THEN Apply(PeriodicState(Cur, voice, loc)) ELSE UNCHANGED bvars
  /\ UNCHANGED <<rvars, mvars, cvars, evars, emptyFor, hvars>>
  /\ StayFrame

\* ---------------------------------------------------------------- time
\* lines 328-333: with a user beside the bot the tracked idle task is replaced,
\* at each turn of the loop, by a task that does the same: _touch_activity
\* cancels the running task and makes the next one. Time passes meanwhile.
Respawns(t) ==
  /\ t.tracked /\ ~t.cancelled /\ t.pc = "start"
  /\ voice.st # "none" /\ NonBot(loc, voice.ch) # {}
  /\ VOICE_STATE.present /\ _touch_activity(Cur) = Cur

\* Something the loop has to run now: a task that is ready, a sleep that has
\* ended, a cancellation or a notification to deliver.
Urgent ==
  \/ \E t \in idleTasks : \/ t.cancelled
                           \/ (t.pc = "start" /\ ~Respawns(t))
                           \/ (t.pc = "sleep" /\ t.rem = 0)
  \/ \E t \in postTasks : t.cancelled \/ (t.pc = "sleep" /\ t.rem = 0)
  \/ \E t \in graceTasks : t.cancelled \/ (t.pc = "sleep" /\ t.rem = 0)
  \/ \E c \in calls : c.pc = "hold_sleep" /\ c.rem = 0
  \/ finishedQ > 0
  \/ periodic = "due"

Slept(S) == {IF t.pc = "sleep" THEN [t EXCEPT !.rem = @ - 1] ELSE t : t \in S}

\* 60 s pass
Tick ==
  /\ ~Urgent
  /\ NotOp
  /\ idleTasks' = Slept(idleTasks)
  /\ postTasks' = Slept(postTasks)
  /\ graceTasks' = Slept(graceTasks)
  /\ calls' = {IF c.pc = "hold_sleep" THEN [c EXCEPT !.rem = @ - 1] ELSE c : c \in calls}
  /\ VOICE_STATE' = IF VOICE_STATE.present
                    THEN [VOICE_STATE EXCEPT
                            !.last_activity = Min(@ + 1, VOICE_IDLE_TIMEOUT_SECS),
                            !.cooldown = Max(@ - 1, 0)]
                    ELSE VOICE_STATE
  /\ periodic' = IF periodic = "stopped" THEN "stopped" ELSE "due"
  /\ emptyFor' = [c \in TempChans |->
                    IF c \in chans /\ Members(loc, botMember, c) = {}
                    THEN [emptyFor[c] EXCEPT
                            !.ticks = Min(@ + 1, DELETE_VC_IF_EMPTY_AFTER_SECS)]
                    ELSE emptyFor[c]]
  /\ UNCHANGED <<rvars, mvars, voice, finishedQ, evars, hvars, stayOn>>

\* ------------------------------------------------------- the join form
\* Text is a sequence of characters, a character a string of length 1
\* ("^2" stands for the one character U+00B2, SUPERSCRIPT TWO).
Lowers == <<"a", "b", "c", "d", "e", "f", "g", "h", "i", "j", "k", "l", "m",
            "n", "o", "p", "q", "r", "s", "t", "u", "v", "w", "x", "y", "z">>
Uppers == <<"A", "B", "C", "D", "E", "F", "G", "H", "I", "J", "K", "L", "M",
            "N", "O", "P", "Q", "R", "S", "T", "U", "V", "W", "X", "Y", "Z">>
Decimals == <<"0", "1", "2", "3", "4", "5", "6", "7", "8", "9">>

IsLower(c) == \E i \in DOMAIN Lowers : Lowers[i] = c
IsUpper(c) == \E i \in DOMAIN Uppers : Uppers[i] = c
IsCased(c) == IsLower(c) \/ IsUpper(c)
IsSpace(c) == c = " "
\* what int() reads as a digit, and what str.isdigit accepts
IsDecimal(c) == \E i \in DOMAIN Decimals : Decimals[i] = c
IsDigit(c) == IsDecimal(c) \/ c = "^2"

UpperChar(c) == IF IsLower(c) THEN Uppers[CHOOSE i \in DOMAIN Lowers : Lowers[i] = c] ELSE c
LowerChar(c) == IF IsUpper(c) THEN Lowers[CHOOSE i \in DOMAIN Uppers : Uppers[i] = c] ELSE c

\* str.upper, str.lower, str.title, str.strip, str.startswith
StrUpper(s) == [i \in DOMAIN s |-> UpperChar(s[i])]
StrLower(s) == [i \in DOMAIN s |-> LowerChar(s[i])]
StrTitle(s) ==
  [i \in DOMAIN s |-> IF i > 1 /\ IsCased(s[i - 1]) THEN LowerChar(s[i]) ELSE UpperChar(s[i])]

RECURSIVE LStrip(_)
LStrip(s) == IF s # <<>> /\ IsSpace(Head(s)) THEN LStrip(Tail(s)) ELSE s

RECURSIVE RStrip(_)
RStrip(s) == IF s # <<>> /\ IsSpace(s[Len(s)]) THEN RStrip(SubSeq(s, 1, Len(s) - 1)) ELSE s

StrStrip(s) == RStrip(LStrip(s))
StartsWith(s, p) == Len(s) >= Len(p) /\ SubSeq(s, 1, Len(p)) = p

\* int() of a text of decimal digits
RECURSIVE IntOf(_)
IntOf(d) ==
  IF d = <<>> THEN 0
  ELSE 10 * IntOf(SubSeq(d, 1, Len(d) - 1))
         + (CHOOSE n \in 0..9 : Decimals[n + 1] = d[Len(d)])

\* lines 135-139: int() raises on the empty text and on a character that is
\* a digit to str.isdigit but not a decimal one
ensure_int(value, default) ==
  LET d == SelectSeq(value, IsDigit)
  IN IF d = <<>> \/ \E i \in DOMAIN d : ~IsDecimal(d[i]) THEN default ELSE IntOf(d)

\* the literals TroopType and TroopTier, and how each is spelled
TroopType == {"Cavalry", "Infantry", "Range"}
TroopTier == {"T8", "T9", "T10", "T11", "T12"}
Spelling ==
  [n \in TroopType \cup TroopTier |->
     CASE n = "Cavalry" -> <<"C", "a", "v", "a", "l", "r", "y">>
       [] n = "Infantry" -> <<"I", "n", "f", "a", "n", "t", "r", "y">>
       [] n = "Range" -> <<"R", "a", "n", "g", "e">>
       [] n = "T8" -> <<"T", "8">>
       [] n = "T9" -> <<"T", "9">>
       [] n = "T10" -> <<"T", "1", "0">>
       [] n = "T11" -> <<"T", "1", "1">>
       [] n = "T12" -> <<"T", "1", "2">>]
IsOneOf(s, names) == \E n \in names : Spelling[n] = s
Named(s, names) == CHOOSE n \in names : Spelling[n] = s

\* a member of the guild who is in no voice channel during the run
Guest == NUsers + 2
Joiners == Users \cup {Guest}

\* the forms the members submit
JoinForm(tt, tier, dragon, cap) ==
  [troop_type |-> tt, troop_tier |-> tier, rally_dragon |-> dragon, capacity |-> cap]
Forms ==
  { JoinForm(<<"i", "n", "f", "a", "n", "t", "r", "y">>, <<"t", "9">>,
             <<"y", "e", "s">>, <<"1", "2", ",", "0", "0", "0">>),
    JoinForm(<<" ", "C", "A", "V", "A", "L", "R", "Y", " ">>, <<" ", "t", "1", "2">>,
             <<" ", "Y">>, <<>>),
    JoinForm(<<"R", "a", "n", "g", "e">>, <<"T", "8">>,
             <<"n", "o">>, <<"5", "^2">>),
    JoinForm(<<"r", "A", "n", "G", "e">>, <<"T", "1", "1">>,
             <<"n", "a", "y">>, <<"0", " ", "7">>),
    JoinForm(<<"t", "a", "n", "k">>, <<"T", "1", "0">>,
             <<"y", "e", "s">>, <<"1", "0", "0">>),
    JoinForm(<<"i", "n", " ", "f", "a", "n", "t", "r", "y">>, <<"t", "9">>,
             <<"y">>, <<"1">>),
    JoinForm(<<"C", "a", "v", "a", "l", "r", "y">>, <<"T", "7">>,
             <<"y", "e", "s">>, <<"1">>),
    JoinForm(<<"r", "a", "n", "g", "e">>, <<"t", " ", "9">>,
             <<"n", "o">>, <<"9">>) }

NoForm == [user |-> None, mid |-> None, answer |-> "none", done |-> FALSE, vc |-> None,
           fields |-> JoinForm(<<>>, <<>>, <<>>, <<>>)]

\* lines 562, 565, 568, 569: what the handler computes of each field
Normalized ==
  [f \in Forms |->
     [tt |-> StrTitle(StrStrip(f.troop_type)),
      tier |-> StrUpper(StrStrip(f.troop_tier)),
      dragon |-> StartsWith(StrLower(StrStrip(f.rally_dragon)), <<"y">>),
      capacity_num |-> ensure_int(f.capacity, 0)]]

\* lines 558-566: the answer to a form that is refused, "ok" to one that is taken
JoinAnswer(R, mid, f) ==
  IF mid \notin DOMAIN R THEN "gone"
  ELSE IF ~IsOneOf(Normalized[f].tt, TroopType) THEN "troop_type"
  ELSE IF ~IsOneOf(Normalized[f].tier, TroopTier) THEN "troop_tier"
  ELSE "ok"

\* lines 571-577: the Participant made of a form that is taken
Joined(u, f) ==
  Participant(u, Named(Normalized[f].tt, TroopType), Named(Normalized[f].tier, TroopTier),
              Normalized[f].dragon, Normalized[f].capacity_num)

\* (UpsertKeepsFirst: an entry the roster already has is kept)
UpsertKeepsFirst(roster, u, p) ==
  [x \in DOMAIN roster \cup {u} |-> IF x \in DOMAIN roster THEN roster[x] ELSE p]

\* r.participants[interaction.user.id] = ... (line 571)
Upsert(roster, u, p) == [x \in DOMAIN roster \cup {u} |-> IF x = u THEN p ELSE roster[x]]

\* (SubmittedBeforeTierCheck: the member is put on the roster, with the
\* placeholder tier, once the troop type is found valid)
SubmittedBeforeTierCheck(R, u, mid, f) ==
  IF JoinAnswer(R, mid, f) \in {"ok", "troop_tier"}
  THEN [R EXCEPT ![mid].participants =
          Upsert(@, u, Participant(u, Named(Normalized[f].tt, TroopType), "T10", FALSE, 0))]
  ELSE R

\* (a join that gives the rally its channel and invite again; used to test C20)
SubmittedReattaches(R, u, mid, f) ==
  IF JoinAnswer(R, mid, f) = "ok"
  THEN LET c == CHOOSE x \in TempChans : MessageId(x) = mid
       IN [R EXCEPT ![mid].participants = Upsert(@, u, Joined(u, f)),
                    ![mid].temp_vc_id = c, ![mid].temp_vc_invite_url = InviteUrl(c)]
  ELSE R

\* RALLIES after the form is handled: only a form that passed every check
\* reaches line 571
Submitted(R, u, mid, f) ==
  IF JoinAnswer(R, mid, f) = "ok"
  THEN [R EXCEPT ![mid].participants = Upsert(@, u, Joined(u, f))]
  ELSE R

\* How the calls awaited after line 577 turn out: all succeed; vc.create_invite
\* raises (line 232); the DM is refused with Forbidden or fails with another
\* error (lines 235-236); the post cannot be fetched (line 245); msg.edit
\* raises (line 248); the answer of line 581 is not delivered.
FollowUps ==
  {"well", "invite raises", "dm forbidden", "dm raises", "post gone", "edit raises",
   "answer raises"}

\* dm_join_info returns (TRUE) or raises (FALSE): no invite is asked when the
\* rally has no channel or the channel is gone, and only Forbidden is caught
dm_join_info(r, o) ==
  \/ r.temp_vc_id = None
  \/ r.temp_vc_id \notin chans
  \/ o \notin {"invite raises", "dm raises"}

\* update_post returns (TRUE) or raises (FALSE): a failed fetch is caught, the
\* edit is not guarded
update_post(o) == o # "edit raises"

\* lines 579-581: the answer "You're on the roster" is sent after the two calls
\* have returned
Succeeds(r, o) == dm_join_info(r, o) /\ update_post(o) /\ o # "answer raises"

\* JoinRallyModal.on_submit (lines 557-581): the checks and the roster entry
\* come before the first await; the awaits that follow (the DM, the post, the
\* answer) change nothing of the rally
JoinSubmit(u, mid, f, o) ==
  /\ joinsLeft > 0
  /\ joinsLeft' = joinsLeft - 1
  /\ NotOp
  /\ form' = [user |-> u, mid |-> mid, answer |-> JoinAnswer(RALLIES, mid, f), fields |-> f,
              done |-> JoinAnswer(RALLIES, mid, f) = "ok" /\ Succeeds(RALLIES[mid], o),
              vc |-> IF mid \in DOMAIN RALLIES THEN RALLIES[mid].temp_vc_id ELSE None]
  /\ RALLIES' = Submitted(RALLIES, u, mid, f)
  /\ UNCHANGED <<VC_TO_POST, chans, nCreated, creating, mvars, cvars, bvars, periodic,
                 ENABLE_VOICE, TEMP_VC_CATEGORY_ID, rallyCap, cmdsLeft, updatesLeft, emptyFor, stayOn,
                 td, streams>>

\* ------------------------------------------------------ the state machine
Start ==
  /\ RALLIES = <<>>
  /\ VC_TO_POST = <<>>
  /\ chans = {}
  /\ nCreated = 0
  /\ creating = {}
  /\ loc = [u \in Users |-> None]
  /\ botMember = None
  /\ voice = NoVoice
  /\ finishedQ = 0
  /\ calls = {}
  /\ VOICE_STATE = NoVoiceState
  /\ idleTasks = {}
  /\ postTasks = {}
  /\ graceTasks = {}
  /\ periodic = "asleep"
  /\ emptyFor = [c \in TempChans |-> [ticks |-> 0, left |-> FALSE]]
  /\ stayOn = FALSE
  /\ lastOp = "none"
  /\ td = [c \in TempChans |-> [armed |-> FALSE, returned |-> 0, cut |-> FALSE]]
  /\ streams = [started |-> 0, stopped |-> 0]
  /\ form = NoForm

Init ==
  /\ Start /\ TEMP_VC_CATEGORY_ID = NotConfigured /\ rallyCap = 1
  /\ ENABLE_VOICE = TRUE /\ cmdsLeft = MaxCmds /\ updatesLeft = MaxUpdates /\ joinsLeft = 0

Next ==
  \/ \E h \in Users, kind \in RallyKinds, ok \in BOOLEAN :
       RallyCreateBegin(h, kind, General, ok)
  \/ \E cr \in creating, ok \in BOOLEAN : RallyCreateRegister(cr, ok)
  \/ \E cr \in creating, ok \in BOOLEAN : RallyCreateFinish(cr, ok)
  \/ \E u \in Users, to \in TempChans \cup {Lobby, None} : UserVoiceUpdate(u, to)
  \/ BotVoiceUpdate
  \/ \E t \in graceTasks : GraceFire(t)
  \/ \E t \in graceTasks, ok \in BOOLEAN, gone \in BOOLEAN : GraceDiscDone(t, ok, gone)
  \/ \E t \in graceTasks, ok \in BOOLEAN : GraceDeleteDone(t, ok)
  \/ \E t \in graceTasks, ok \in BOOLEAN : GracePostDone(t, ok)
  \/ \E t \in graceTasks, eff \in BOOLEAN : GraceCancelled(t, eff)
  \/ \E u \in Users, cmd \in {"play", "stay", "hold"}, secs \in 1..MaxHoldTicks :
       CmdBegin(u, cmd, secs, TRUE, Granted)
  \/ \E c \in calls, how \in {"ok", "raise", "stuck"} : ConnectDone(c, how)
  \/ \E c \in calls, ok \in BOOLEAN : MoveDone(c, ok)
  \/ \E c \in calls, ok \in BOOLEAN : HoldArm(c, ok)
  \/ \E c \in calls : HoldWake(c)
  \/ \E u \in Users : LeaveBegin(u)
  \/ \E c \in calls, ok \in BOOLEAN : LeaveDone(c, ok)
  \/ \E t \in idleTasks : IdleRun(t)
  \/ \E t \in idleTasks, ok \in BOOLEAN : IdleDiscDone(t, ok)
  \/ \E t \in idleTasks \cup postTasks, eff \in BOOLEAN : TimerCancelled(t, eff)
  \/ \E t \in postTasks : PostFire(t)
  \/ \E t \in postTasks, ok \in BOOLEAN : PostDiscDone(t, ok)
  \/ PlaybackEnds
  \/ PlaybackFinished
  \/ VoiceLost
  \/ PeriodicCheck(TRUE)
  \/ Tick

Spec == Init /\ [][Next]_vars

\* The voice session alone, in a guild with no rally: users move between the
\* two permanent channels, and the run may issue more commands.
InitVoice ==
  /\ Start /\ TEMP_VC_CATEGORY_ID = NotConfigured /\ rallyCap = 1
  /\ ENABLE_VOICE = TRUE /\ cmdsLeft = VoiceMaxCmds /\ updatesLeft = VoiceMaxUpdates
  /\ joinsLeft = 0

NextVoice ==
  \/ \E u \in Users, to \in {Lobby, Lounge, None} : UserVoiceUpdate(u, to)
  \/ BotVoiceUpdate
  \/ \E u \in Users, cmd \in {"play", "stay", "hold"}, secs \in 1..MaxHoldTicks :
       CmdBegin(u, cmd, secs, TRUE, Granted)
  \/ \E c \in calls, how \in {"ok", "raise", "stuck"} : ConnectDone(c, how)
  \/ \E c \in calls, ok \in BOOLEAN : MoveDone(c, ok)
  \/ \E c \in calls, ok \in BOOLEAN : HoldArm(c, ok)
  \/ \E c \in calls : HoldWake(c)
  \/ \E u \in Users : LeaveBegin(u)
  \/ \E c \in calls, ok \in BOOLEAN : LeaveDone(c, ok)
  \/ \E t \in idleTasks : IdleRun(t)
  \/ \E t \in idleTasks, ok \in BOOLEAN : IdleDiscDone(t, ok)
  \/ \E t \in idleTasks \cup postTasks, eff \in BOOLEAN : TimerCancelled(t, eff)
  \/ \E t \in postTasks : PostFire(t)
  \/ \E t \in postTasks, ok \in BOOLEAN : PostDiscDone(t, ok)
  \/ PlaybackEnds
  \/ PlaybackFinished
  \/ VoiceLost
  \/ PeriodicCheck(TRUE)
  \/ Tick

VoiceSpec == InitVoice /\ [][NextVoice]_vars

\* The same guild on a host that runs with ENABLE_VOICE=false: what can
\* happen is what needs no voice client.
InitDisabled ==
  /\ Start /\ TEMP_VC_CATEGORY_ID = NotConfigured /\ rallyCap = 1
  /\ ENABLE_VOICE = FALSE /\ cmdsLeft = VoiceMaxCmds /\ updatesLeft = VoiceMaxUpdates
  /\ joinsLeft = 0

NextDisabled ==
  \/ \E u \in Users, to \in {Lobby, Lounge, None} : UserVoiceUpdate(u, to)
  \/ \E u \in Users, cmd \in {"play", "stay", "hold"}, secs \in 1..MaxHoldTicks :
       CmdBegin(u, cmd, secs, TRUE, Granted)
  \/ \E u \in Users : LeaveBegin(u)
  \/ \E t \in idleTasks : IdleRun(t)
  \/ PeriodicCheck(TRUE)
  \/ Tick

DisabledSpec == InitDisabled /\ [][NextDisabled]_vars

\* The rallies and their rosters: rallies are created, members submit the join
\* form, users come and go in the temp channels, and the channels that stay
\* empty are torn down.  No voice command is issued, so the bot has no voice
\* client.
InitJoin ==
  /\ Start /\ TEMP_VC_CATEGORY_ID = NotConfigured /\ rallyCap = 1
  /\ ENABLE_VOICE = TRUE /\ cmdsLeft = 0 /\ updatesLeft = MaxUpdates /\ joinsLeft = MaxJoins

NextJoin ==
  \/ \E h \in Users, kind \in {"KEEP", "SOP"}, ok \in BOOLEAN :
       RallyCreateBegin(h, kind, General, ok)
  \/ \E cr \in creating, ok \in BOOLEAN : RallyCreateRegister(cr, ok)
  \/ \E cr \in creating, ok \in BOOLEAN : RallyCreateFinish(cr, ok)
  \/ \E u \in Joiners, mid \in {MessageId(c) : c \in 1..rallyCap}, f \in Forms :
       JoinSubmit(u, mid, f, "well")
  \/ \E u \in Users, to \in TempChans \cup {None} : UserVoiceUpdate(u, to)
  \/ \E t \in graceTasks : GraceFire(t)
  \/ \E t \in graceTasks, ok \in BOOLEAN : GraceDeleteDone(t, ok)
  \/ \E t \in graceTasks, ok \in BOOLEAN : GracePostDone(t, ok)
  \/ \E t \in idleTasks : IdleRun(t)
  \/ PeriodicCheck(TRUE)
  \/ Tick

JoinSpec == InitJoin /\ [][NextJoin]_vars

\* The rally life cycle with everything that acts on it: creation, one join
\* form, members entering and leaving the temp channel and the lobby, one play
\* command with its connection, playback and timers, and the teardown.  (One
\* command cannot bring about the cancellation of a teardown that has begun,
\* so the step that delivers it is left out.)
InitRoster ==
  /\ Start /\ TEMP_VC_CATEGORY_ID = NotConfigured /\ rallyCap = 1
  /\ ENABLE_VOICE = TRUE /\ cmdsLeft = 1 /\ updatesLeft = MaxUpdates /\ joinsLeft = 1

NextRoster ==
  \/ \E h \in Users, kind \in RallyKinds, ok \in BOOLEAN :
       RallyCreateBegin(h, kind, General, ok)
  \/ \E cr \in creating, ok \in BOOLEAN : RallyCreateRegister(cr, ok)
  \/ \E cr \in creating, ok \in BOOLEAN : RallyCreateFinish(cr, ok)
  \/ \E u \in Joiners, mid \in {MessageId(c) : c \in 1..rallyCap}, f \in Forms :
       JoinSubmit(u, mid, f, "well")
  \/ \E u \in Users, to \in TempChans \cup {Lobby, None} : UserVoiceUpdate(u, to)
  \/ BotVoiceUpdate
  \/ \E t \in graceTasks : GraceFire(t)
  \/ \E t \in graceTasks, ok \in BOOLEAN, gone \in BOOLEAN : GraceDiscDone(t, ok, gone)
  \/ \E t \in graceTasks, ok \in BOOLEAN : GraceDeleteDone(t, ok)
  \/ \E t \in graceTasks, ok \in BOOLEAN : GracePostDone(t, ok)
  \/ \E u \in Users : CmdBegin(u, "play", 1, TRUE, Granted)
  \/ \E c \in calls, how \in {"ok", "raise", "stuck"} : ConnectDone(c, how)
  \/ \E t \in idleTasks : IdleRun(t)
  \/ \E t \in idleTasks, ok \in BOOLEAN : IdleDiscDone(t, ok)
  \/ \E t \in idleTasks \cup postTasks, eff \in BOOLEAN : TimerCancelled(t, eff)
  \/ \E t \in postTasks : PostFire(t)
  \/ \E t \in postTasks, ok \in BOOLEAN : PostDiscDone(t, ok)
  \/ PlaybackEnds
  \/ PlaybackFinished
  \/ VoiceLost
  \/ PeriodicCheck(TRUE)
  \/ Tick

RosterSpec == InitRoster /\ [][NextRoster]_vars

\* ================================================================ claims
\* a temp channel that exists, is indexed and has no member
EmptyIndexed(c) ==
  c \in chans /\ c \in DOMAIN VC_TO_POST /\ Members(loc, botMember, c) = {}

\* a delete_rally_for_vc call for channel c is suspended at one of its awaits
TearingDown(c) == \E t \in graceTasks : t.ch = c /\ t.pc \in {"disc", "delete", "post"}

\* C1: when the last member has left the temp channel of a rally (created
\* without an error) and the channel has then stayed empty for the whole grace
\* period, the channel is gone or its deletion is under way: it is not left
\* standing, indexed and empty, with no deletion task to remove it.
C1_EmptyChannelIsTornDown ==
  \A c \in TempChans :
    EmptyIndexed(c) /\ td[c].armed /\ emptyFor[c].left
                    /\ emptyFor[c].ticks >= DELETE_VC_IF_EMPTY_AFTER_SECS
      => \E t \in graceTasks : t.ch = c /\ ~t.cancelled

\* C2: a deletion that was pending when a member joined the channel never
\* goes on to tear the channel down: it was cancelled, or it finds the member.
C2_JoinCancelsDeletion ==
  \A t \in graceTasks : t.stale => t.pc = "sleep"

\* the step wakes a deletion of channel c into delete_rally_for_vc
GraceDeletes(c) ==
  /\ c \in DOMAIN VC_TO_POST
  /\ c \notin DOMAIN VC_TO_POST'
  /\ \E t \in graceTasks : t.ch = c /\ t.pc = "sleep" /\ t.rem = 0 /\ t \notin graceTasks'

\* C3: whenever the grace mechanism starts to delete a temp channel, the
\* channel has been empty for the whole grace period.
C3_DeletedOnlyAfterGrace ==
  [][\A c \in TempChans :
       GraceDeletes(c) => emptyFor[c].ticks >= DELETE_VC_IF_EMPTY_AFTER_SECS]_vars

\* C4: once delete_rally_for_vc has returned for a channel and no call for it
\* is still running or was cut off by a cancellation, the channel has no entry
\* in VC_TO_POST, its rally has temp_vc_id and temp_vc_invite_url None and
\* the roster it was created with, however many calls there were; and a call
\* that popped no entry never reaches the update of the post, the only await
\* whose error leaves the call.
C4_TeardownIdempotent ==
  /\ \A c \in TempChans :
       td[c].returned >= 1 /\ ~td[c].cut /\ ~TearingDown(c)
         => /\ c \notin DOMAIN VC_TO_POST
            /\ MessageId(c) \in DOMAIN RALLIES
                 => LET r == RALLIES[MessageId(c)]
                    IN /\ r.temp_vc_id = None
                       /\ r.temp_vc_invite_url = None
                       /\ r.participants =
                            Rally(r.message_id, r.creator_id, r.rally_kind, c).participants
  /\ \A t \in graceTasks : t.pc = "post" => t.mid # None

\* C4 witness: two calls for the same channel have returned
C4_TwoCallsReturned ==
  \E c \in TempChans : td[c].returned = 2 /\ ~td[c].cut /\ ~TearingDown(c)

\* the voice connect and move attempts in flight
Attempts(S) == {c \in S : c.pc \in {"connect", "move"}}

\* C5: in the step that follows a failed connect or move attempt (no time has
\* passed, so the 60 s cooldown has not run out) no handler issues a connect
\* or a move.
C5_CooldownAfterFailure ==
  [][lastOp = "failed" => Attempts(calls') \subseteq Attempts(calls)]_vars

\* C6: at most one connect or move attempt of the guild is in flight.
C6_OneAttemptInFlight == Cardinality(Attempts(calls)) <= 1

\* the state holds an idle-disconnect task that will run
IdleArmed == VOICE_STATE.present /\ \E t \in idleTasks : t.tracked /\ ~t.cancelled

\* C7: when an ensure-connected operation has just completed and the bot is
\* connected, the guild has a voice state with its idle timer armed, whether
\* the operation succeeded or failed; and a failed one leaves no timer that
\* the state holds.
C7_StateMatchesLastOperation ==
  /\ lastOp \in {"connected", "failed"} /\ voice.st = "connected" => IdleArmed
  /\ lastOp = "failed" => \A t \in idleTasks \cup postTasks : ~t.tracked

\* C8: while stay mode is on (/stay succeeded, no /leave since, the bot still
\* connected) neither the idle task nor the post-playback task decides to
\* disconnect.
C8_StayKeepsConnected ==
  stayOn => \A t \in idleTasks \cup postTasks : t.cancelled \/ t.pc # "disc"

\* C9: a post-playback task that was asleep when the activity of the guild
\* was touched never goes on to disconnect the bot.
C9_TouchCancelsPostPlay ==
  \A t \in postTasks : t.touched => t.pc # "disc"

\* the step takes a post-playback task from its sleep to the disconnect
PostDisconnects ==
  \E t \in postTasks :
    /\ t.pc = "sleep"
    /\ [t EXCEPT !.pc = "disc"] \in postTasks' \ postTasks

PendingTimers(I, P) == {t \in I \cup P : ~t.cancelled}

\* C11: /leave is final: once its disconnect has completed and the bot is
\* disconnected (and no voice command is in flight), no idle-disconnect or post-playback task is pending,
\* and no step other than the start of a new voice command makes one pending
\* (not the finished-notification of the stream the disconnect interrupted,
\* not a voice-state event of a user).
C11_LeaveIsFinal ==
  [][lastOp = "leave" /\ voice.st = "none" /\ calls = {}
       => /\ PendingTimers(idleTasks, postTasks) = {}
          /\ cmdsLeft' = cmdsLeft => PendingTimers(idleTasks', postTasks') = {}]_vars

\* C12: a move that fails is followed by a fallback: the handler whose
\* voice.move_to raised goes on to a disconnect and a reconnect to its target
\* (it is then awaiting the connect), and does not end with the failure.
C12_MoveFailureFallsBack ==
  [][\A c \in calls :
       c.pc = "move" /\ c \notin calls' /\ lastOp' = "failed"
         => \E d \in calls' : d.id = c.id /\ d.pc = "connect" /\ d.target = c.target]_vars

\* C13: one stream per voice session, the last request wins: a play request
\* leaves its own stream playing, and when a stream was playing it stopped that
\* stream (whose finished-notification is handed over, nothing is queued); a
\* finished-notification never changes the voice client; and the post-playback
\* task started by a notification that ran while the new stream was playing is
\* never at its disconnect while that stream plays.
C13_LastRequestWins ==
  /\ [][/\ streams'.started > streams.started
           => /\ voice'.playing
              /\ finishedQ' = finishedQ + (streams'.stopped - streams.stopped)
              /\ streams'.stopped > streams.stopped <=> voice.playing
        /\ finishedQ' < finishedQ => voice' = voice]_vars
  /\ [](\A t \in postTasks :
          t.pc = "disc" /\ t.during # 0 /\ t.during = streams.started => ~voice.playing)

\* a request stopped a playing stream, and the post-playback task of the
\* stopped stream's notification is pending while the new stream plays
C13_StalePostTaskWhilePlaying ==
  /\ streams.stopped >= 1 /\ voice.playing /\ finishedQ = 0
  /\ \E t \in postTasks : t.during = streams.started /\ ~t.cancelled /\ t.rem = 0

\* the answers a countdown button can give
PlayAnswers == {"play:join_first", "play:url", "play:cooldown", "play:disabled"}

\* a connect or a move has been asked of the platform
VoiceAsked == Attempts(calls) # {} \/ voice.st # "none"

\* C14: with the flag disabled, every playback request is answered
\* with the error that carries the audio url, and no connect or move is issued.
C14_DisabledAnswersUrl ==
  ~ENABLE_VOICE => /\ lastOp \in PlayAnswers => lastOp = "play:url"
                   /\ ~VoiceAsked

\* a step that handles a join form
JoinStep == joinsLeft' < joinsLeft

\* the integer written with the characters 0..9 of a text, 0 when it has none
DecimalValue(s) == IntOf(SelectSeq(s, IsDecimal))

\* C15: a join form whose troop type (stripped, title-cased) is not a declared
\* troop type, or whose tier (stripped, upper-cased) is not one of T8..T12, or
\* which names a rally that RALLIES does not hold, is answered with an error
\* and changes nothing: RALLIES with every roster and VC_TO_POST stay as they are.
C15_InvalidJoinChangesNothing ==
  [][JoinStep /\ (\/ form'.mid \notin DOMAIN RALLIES
                  \/ ~IsOneOf(StrTitle(StrStrip(form'.fields.troop_type)), TroopType)
                  \/ ~IsOneOf(StrUpper(StrStrip(form'.fields.troop_tier)), TroopTier))
       => /\ form'.answer # "ok"
          /\ RALLIES' = RALLIES
          /\ VC_TO_POST' = VC_TO_POST]_vars

\* a form with a wrong tier, and one with a wrong troop type, has been refused
\* by a rally that exists and has a roster
C15_InvalidJoinRefused ==
  /\ form.answer \in {"troop_type", "troop_tier"}
  /\ form.mid \in DOMAIN RALLIES

\* C16: the Participant stored for a valid join form has a declared troop type
\* and tier, rally_dragon true exactly when the stripped, lower-cased answer
\* starts with y, and as capacity_value the integer its digit characters
\* form (0 when it has none).
C16_StoredParticipantIsNormalized ==
  [][JoinStep /\ form'.answer = "ok"
       => LET p == RALLIES'[form'.mid].participants[form'.user]
              f == form'.fields
          IN /\ p.user_id = form'.user
             /\ p.troop_type \in TroopType
             /\ p.troop_tier \in TroopTier
             /\ p.rally_dragon <=> StartsWith(StrLower(StrStrip(f.rally_dragon)), <<"y">>)
             /\ p.capacity_value = DecimalValue(f.capacity)]_vars

\* C17: the roster upsert is last-write-wins: after a join that is taken, the
\* member's entry is the one just written (nothing of an older entry, the
\* host's placeholder included, is kept), the roster has one entry per member,
\* under the member's id, and the entries of the others are unchanged.
C17_UpsertLastWriteWins ==
  [][JoinStep /\ form'.answer = "ok"
       => LET old == RALLIES[form'.mid].participants
              new == RALLIES'[form'.mid].participants
          IN /\ new[form'.user] = Joined(form'.user, form'.fields)
             /\ DOMAIN new = DOMAIN old \cup {form'.user}
             /\ \A x \in DOMAIN new : new[x].user_id = x
             /\ \A x \in DOMAIN old \ {form'.user} : new[x] = old[x]
             /\ \A m \in DOMAIN RALLIES \ {form'.mid} : RALLIES'[m] = RALLIES[m]]_vars

\* the host has replaced the placeholder entry by a join while another member
\* is on the roster
C17_HostRejoined ==
  \E m \in DOMAIN RALLIES :
    /\ form.mid = m /\ form.answer = "ok" /\ form.user = RALLIES[m].creator_id
    /\ Guest \in DOMAIN RALLIES[m].participants
    /\ RALLIES[m].participants[form.user]
         # Participant(form.user, "Cavalry", "T10", FALSE, 0)

\* ---------------------------------------------------------------- C18
\* C18: creating a rally (KEEP or SOP) with host H registers the record and
\* the index entry in one step: the step that adds a rally id to RALLIES adds
\* a record whose roster is exactly H with the placeholder values (Cavalry,
\* T10, no dragon, capacity 0) and whose temp_vc_id and temp_vc_invite_url are
\* the channel just made and its invite, and the same step adds channel -> id
\* to VC_TO_POST; no step adds one of the two without the other, no state
\* holds an index entry without its record, and the empty-channel check that
\* the creation starts is added only when both are there.
Registered(R, V, mid) ==
  /\ mid \in DOMAIN R
  /\ R[mid].message_id = mid
  /\ R[mid].rally_kind \in {"KEEP", "SOP"}
  /\ R[mid].creator_id \in Users
  /\ R[mid].participants =
       (R[mid].creator_id :> Participant(R[mid].creator_id, "Cavalry", "T10", FALSE, 0))
  /\ R[mid].temp_vc_id \in chans
  /\ R[mid].temp_vc_invite_url = InviteUrl(R[mid].temp_vc_id)
  /\ R[mid].temp_vc_id \in DOMAIN V
  /\ V[R[mid].temp_vc_id] = mid

C18_CreationRegistersAtOnce ==
  /\ [][/\ \A mid \in DOMAIN RALLIES' \ DOMAIN RALLIES :
             /\ Registered(RALLIES', VC_TO_POST', mid)
             /\ RALLIES'[mid].temp_vc_id \notin DOMAIN VC_TO_POST
             /\ \E cr \in creating : /\ cr.vc = RALLIES'[mid].temp_vc_id
                                     /\ cr.author = RALLIES'[mid].creator_id
                                     /\ cr.kind = RALLIES'[mid].rally_kind
        /\ \A c \in DOMAIN VC_TO_POST' \ DOMAIN VC_TO_POST :
             VC_TO_POST'[c] \in DOMAIN RALLIES' \ DOMAIN RALLIES
        /\ \A t \in graceTasks' \ graceTasks :
             ~t.tracked /\ ~t.cancelled /\ ~t.stale /\ t.pc = "sleep"
               /\ t.rem = DELETE_VC_IF_EMPTY_AFTER_SECS
               => /\ t.ch \in DOMAIN VC_TO_POST
                  /\ VC_TO_POST[t.ch] \in DOMAIN RALLIES
                  /\ RALLIES[VC_TO_POST[t.ch]].temp_vc_id = t.ch]_vars
  /\ [](\A c \in DOMAIN VC_TO_POST :
          VC_TO_POST[c] \in DOMAIN RALLIES /\ RALLIES[VC_TO_POST[c]].temp_vc_id = c)

\* an SOP rally is registered and its empty-channel check has been started
C18_SopRallyRegistered ==
  \E mid \in DOMAIN RALLIES :
    /\ RALLIES[mid].rally_kind = "SOP"
    /\ Registered(RALLIES, VC_TO_POST, mid)
    /\ td[RALLIES[mid].temp_vc_id].armed
    /\ \E t \in graceTasks : t.ch = RALLIES[mid].temp_vc_id /\ ~t.tracked

\* ---------------------------------------------------------------- C19
\* the fields of a rally record that are not its voice attachment
Identity(r) == [message_id |-> r.message_id, guild_id |-> r.guild_id,
                channel_id |-> r.channel_id, creator_id |-> r.creator_id,
                rally_kind |-> r.rally_kind, details |-> r.details]

\* C19: teardown clears only the voice attachment.  Once delete_rally_for_vc
\* has returned for a channel, the channel is not in VC_TO_POST and its rally
\* is still in RALLIES with temp_vc_id and temp_vc_invite_url None.  No step
\* removes a rally or changes its id, host, guild, origin channel, kind or
\* descriptive fields; only the step that takes a join form changes a roster
\* (no voice event, timer, playback or teardown step does); a step that
\* changes the voice attachment clears both of its fields and nothing else;
\* and a join form taken for a rally whose channel is gone still upserts the
\* member, leaving the attachment cleared.
C19_TeardownClearsOnlyVoice ==
  /\ [](\A c \in TempChans :
          td[c].returned >= 1 /\ ~td[c].cut /\ ~TearingDown(c)
            => /\ c \notin DOMAIN VC_TO_POST
               /\ MessageId(c) \in DOMAIN RALLIES
               /\ RALLIES[MessageId(c)].temp_vc_id = None
               /\ RALLIES[MessageId(c)].temp_vc_invite_url = None)
  /\ [][\A mid \in DOMAIN RALLIES :
          /\ mid \in DOMAIN RALLIES'
          /\ Identity(RALLIES'[mid]) = Identity(RALLIES[mid])
          /\ ~JoinStep => RALLIES'[mid].participants = RALLIES[mid].participants
          /\ RALLIES'[mid] # RALLIES[mid] /\ ~JoinStep
               => /\ RALLIES'[mid] = [RALLIES[mid] EXCEPT !.temp_vc_id = None,
                                                          !.temp_vc_invite_url = None]
                  /\ \A c \in DOMAIN VC_TO_POST' : VC_TO_POST'[c] # mid
          /\ JoinStep /\ form'.answer = "ok" /\ form'.mid = mid
               => /\ RALLIES'[mid].participants[form'.user] = Joined(form'.user, form'.fields)
                  /\ RALLIES'[mid].temp_vc_id = RALLIES[mid].temp_vc_id
                  /\ RALLIES'[mid].temp_vc_invite_url = RALLIES[mid].temp_vc_invite_url]_vars

\* a guest is on the roster of a rally by a form taken after the teardown of
\* its channel returned, and the bot has played and left since the rally was made
C19_JoinedAfterTeardown ==
  \E c \in TempChans :
    /\ td[c].returned >= 1 /\ ~TearingDown(c) /\ c \notin chans
    /\ form.answer = "ok" /\ form.mid = MessageId(c) /\ form.user = Guest /\ form.vc = None
    /\ RALLIES[MessageId(c)].temp_vc_id = None
    /\ Guest \in DOMAIN RALLIES[MessageId(c)].participants
    /\ RALLIES[MessageId(c)].creator_id \in DOMAIN RALLIES[MessageId(c)].participants
    /\ streams.started > 0

\* ---------------------------------------------------------------- C20
\* C20: once a rally's temp_vc_id is None it stays None: no step (a join
\* form, a voice event, a play command and what follows it, a timer, a
\* teardown) gives a rally without a channel a channel or an invite again, or
\* an entry in VC_TO_POST.
C20_ClearedStaysCleared ==
  [][\A mid \in DOMAIN RALLIES :
       RALLIES[mid].temp_vc_id = None
         => /\ mid \in DOMAIN RALLIES'
            /\ RALLIES'[mid].temp_vc_id = None
            /\ RALLIES'[mid].temp_vc_invite_url = None
            /\ \A c \in DOMAIN VC_TO_POST' : VC_TO_POST'[c] # mid]_vars

\* a rally without a channel for which the host's join form has been taken
\* since, while the bot plays in the lobby with its idle timer armed
C20_BusyAfterClearing ==
  \E mid \in DOMAIN RALLIES :
    /\ RALLIES[mid].temp_vc_id = None
    /\ form.answer = "ok" /\ form.mid = mid /\ form.vc = None
    /\ form.user = RALLIES[mid].creator_id
    /\ voice.st = "connected" /\ voice.ch = Lobby /\ voice.playing
    /\ idleTasks # {}

\* ---------------------------------------------------------------- C21
\* the deletion tasks of channel c that are pending: asleep and not cancelled
PendingDeletions(c) == {t \in graceTasks : t.ch = c /\ t.pc = "sleep" /\ ~t.cancelled}

\* C21: at most one deletion task is pending for a temp channel at any time,
\* the task started at the creation of the rally and the tasks started by
\* voice-state updates counted together.
C21_OnePendingDeletion ==
  \A c \in TempChans : Cardinality(PendingDeletions(c)) <= 1

\* ---------------------------------------------------------------- C22
\* C22: whenever an indexed temp channel goes from some members to none (the
\* last to leave being a user or the bot), a deletion of the channel is
\* pending afterwards: a task for it that is not cancelled and has not ended.
\* (Of the bot's departures, the ones after a disconnect by one of its own
\* timers are looked at, and the channels whose creation went through.)
C22_EmptyingLeavesDeletionPending ==
  [][\A c \in DOMAIN VC_TO_POST \cap DOMAIN VC_TO_POST' :
       /\ c \in chans'
       /\ Members(loc, botMember, c) # {}
       /\ Members(loc', botMember', c) = {}
       /\ botMember = c => lastOp = "left"
       /\ td[c].armed
       => \E t \in graceTasks' : t.ch = c /\ ~t.cancelled]_vars

\* ---------------------------------------------------------------- C23
\* C23: a deletion task re-validates when it wakes.  A task that wakes while
\* its channel has a member, or is no longer in the guild, ends there: it
\* starts no teardown (no task is left awaiting a disconnect or a delete for
\* it), and RALLIES, VC_TO_POST, the channels and the voice client are as they
\* were, whatever the channel looked like while the task slept; and a
\* teardown is begun only for a channel that is in the guild and empty.
C23_FireRevalidates ==
  /\ [][\A t \in graceTasks :
          /\ t.pc = "sleep" /\ t.rem = 0 /\ t \notin graceTasks'
          /\ t.ch \notin chans \/ Members(loc, botMember, t.ch) # {}
          /\ lastOp' \in {"none", "kept"} /\ VOICE_STATE' = VOICE_STATE
          /\ updatesLeft' = updatesLeft
          => /\ lastOp' = "kept"
             /\ graceTasks' = graceTasks \ {t}
             /\ RALLIES' = RALLIES /\ VC_TO_POST' = VC_TO_POST /\ chans' = chans
             /\ voice' = voice /\ loc' = loc /\ botMember' = botMember]_vars
  /\ [][\A c \in TempChans :
          GraceDeletes(c) => c \in chans /\ Members(loc, botMember, c) = {}]_vars

\* a deletion task made while its channel was empty has just woken with the
\* channel occupied and has kept it, rally and index entry in place
C23_KeptOccupiedChannel ==
  /\ lastOp = "kept"
  /\ \E c \in chans : /\ Members(loc, botMember, c) # {}
                      /\ c \in DOMAIN VC_TO_POST
                      /\ RALLIES[VC_TO_POST[c]].temp_vc_id = c
                      /\ td[c].armed
                      /\ ~TearingDown(c)

\* ---------------------------------------------------------------- C24
\* C24: a teardown that has begun clears the rally.  Once the entry of a
\* channel has been removed from VC_TO_POST and no task is left in
\* delete_rally_for_vc for the channel (each has returned, raised or been
\* cancelled), the rally's temp_vc_id and temp_vc_invite_url are None.
C24_BegunTeardownClears ==
  \A c \in TempChans :
    MessageId(c) \in DOMAIN RALLIES /\ c \notin DOMAIN VC_TO_POST /\ ~TearingDown(c)
      => /\ RALLIES[MessageId(c)].temp_vc_id = None
         /\ RALLIES[MessageId(c)].temp_vc_invite_url = None

\* ---------------------------------------------------------------- C25
\* lines 227-232: dm_join_info, called for rally r, asks the platform for an
\* invite to the rally's channel
AsksInvite(r) == r.temp_vc_id # None /\ r.temp_vc_id \in chans

\* C25: joins and teardowns of one rally are serialized.  A join form taken
\* for a rally never finds the rally with a channel that VC_TO_POST no longer
\* holds (a teardown between its steps), and so asks for no invite to a
\* channel whose teardown has begun.
C25_JoinSeesNoHalfTeardown ==
  [][JoinStep /\ form'.answer = "ok"
       => LET r == RALLIES'[form'.mid]
          IN /\ r.temp_vc_id # None => r.temp_vc_id \in DOMAIN VC_TO_POST
             /\ AsksInvite(r) => ~TearingDown(r.temp_vc_id)]_vars

\* ---------------------------------------------------------------- C26
\* C26: the end of a stream, reported on the audio thread, changes nothing of
\* the shared voice state: the step in which a stream ends by itself leaves
\* VOICE_STATE and every timer as they were and hands one notification to the
\* loop; and a notification is run by the loop as one step, in which
\* _on_playback_finished records the activity, restarts the idle timer and
\* arms the post-playback timer.
C26_CallbackOnlyHandsOff ==
  /\ [][voice.playing /\ ~voice'.playing /\ voice'.st = "connected"
          => /\ VOICE_STATE' = VOICE_STATE
             /\ idleTasks' = idleTasks /\ postTasks' = postTasks /\ graceTasks' = graceTasks
             /\ finishedQ' = finishedQ + 1]_vars
  /\ [][finishedQ' < finishedQ /\ voice' = voice
          => /\ finishedQ' = finishedQ - 1
             /\ VOICE_STATE' = GuildVoiceState
             /\ NewIdle \in idleTasks'
             /\ \E t \in postTasks' : t.tracked /\ t.pc = "sleep"
                                        /\ t.rem = DISCONNECT_AFTER_PLAY_SECS
             /\ \A t \in idleTasks' \cup postTasks' : t.tracked => t.pc \in {"start", "sleep"}]_vars

\* a stream has ended and its notification waits for the loop: the bot is
\* connected and silent, and the timers are the ones the play command left
C26_NotificationWaiting ==
  /\ finishedQ = 1 /\ streams.started = 1
  /\ voice.st = "connected" /\ ~voice.playing
  /\ postTasks = {}
  /\ VOICE_STATE.present /\ \E t \in idleTasks : t.tracked

\* ---------------------------------------------------------------- C27
\* C27: no timer task or notification handler ends with an error nobody
\* caught: whatever platform call fails inside the idle task, the
\* post-playback task, the empty-channel task (its disconnect, its channel
\* delete, its update of the post) or the playback-finished handler, the
\* failure is caught inside the task.
C27_NoUncaughtFailure == lastOp # "raised"

\* ------------------------------------------------------------------ C28
\* The periodic loop with rounds that may raise, beside one voice command and
\* the voice-state changes of a user; the event loop runs what is ready and
\* time goes on.
InitPeriodic ==
  /\ Start /\ TEMP_VC_CATEGORY_ID = NotConfigured /\ rallyCap = 1
  /\ ENABLE_VOICE = TRUE /\ cmdsLeft = 1 /\ updatesLeft = MaxUpdates
  /\ joinsLeft = 0

Ready ==
  \/ BotVoiceUpdate
  \/ \E c \in calls, how \in {"ok", "raise", "stuck"} : ConnectDone(c, how)
  \/ \E t \in idleTasks : IdleRun(t)
  \/ \E t \in idleTasks, ok \in BOOLEAN : IdleDiscDone(t, ok)
  \/ \E t \in idleTasks \cup postTasks, eff \in BOOLEAN : TimerCancelled(t, eff)
  \/ \E t \in postTasks : PostFire(t)
  \/ \E t \in postTasks, ok \in BOOLEAN : PostDiscDone(t, ok)
  \/ PlaybackFinished

NextPeriodic ==
  \/ \E u \in Users, to \in {Lobby, None} : UserVoiceUpdate(u, to)
  \/ \E u \in Users : CmdBegin(u, "play", 1, TRUE, Granted)
  \/ Ready
  \/ PlaybackEnds
  \/ VoiceLost
  \/ \E ok \in BOOLEAN : PeriodicCheck(ok)
  \/ Tick

PeriodicSpec ==
  /\ InitPeriodic /\ [][NextPeriodic]_vars
  /\ WF_vars(Ready) /\ WF_vars(\E ok \in BOOLEAN : PeriodicCheck(ok)) /\ WF_vars(Tick)

C29_CreationLeaksNoChannel ==
  [][\A cr \in creating \ creating' :
       (\A x \in creating' : x.vc # cr.vc)
       => \/ cr.vc \notin chans'
          \/ /\ cr.vc \in DOMAIN VC_TO_POST'
             /\ VC_TO_POST'[cr.vc] \in DOMAIN RALLIES'
             /\ \E t \in graceTasks' : t.ch = cr.vc /\ ~t.cancelled]_vars

\* ------------------------------------------------------------------ C30
\* Rally creation under every configuration of the category id, from a text
\* channel inside or outside a category, with the owner in a voice channel, in
\* a stage channel or out of voice.
InitCategory ==
  /\ Start /\ TEMP_VC_CATEGORY_ID \in {NotConfigured, CatRallies, General, ForeignCat}
  /\ rallyCap = 1
  /\ ENABLE_VOICE = TRUE /\ cmdsLeft = 0 /\ updatesLeft = MaxUpdates /\ joinsLeft = 0

NextCategory ==
  \/ \E u \in Users, to \in {Lobby, Lounge, Stage, None} : UserVoiceUpdate(u, to)
  \/ \E h \in Users, kind \in RallyKinds, context \in {General, Loose}, ok \in BOOLEAN :
       RallyCreateBegin(h, kind, context, ok)
  \/ \E cr \in creating, ok \in BOOLEAN : RallyCreateRegister(cr, ok)
  \/ \E cr \in creating, ok \in BOOLEAN : RallyCreateFinish(cr, ok)

CategorySpec == InitCategory /\ [][NextCategory]_vars

C31_OnlyJoinCancelsDeletion ==
  [][\A t \in graceTasks :
       /\ t.tracked /\ ~t.cancelled /\ t.pc = "sleep" /\ t.rem > 0
       /\ ~\E x \in graceTasks' : x.ch = t.ch /\ x.tracked /\ x.pc = "sleep"
       => Members(loc', botMember', t.ch) # {}]_vars

\* ------------------------------------------------------------------ C32
\* The voice session with two commands and two voice-state changes of the
\* user; what the event loop has ready runs, awaited platform calls end,
\* streams end and time goes on.
InitIdle ==
  /\ Start /\ TEMP_VC_CATEGORY_ID = NotConfigured /\ rallyCap = 1
  /\ ENABLE_VOICE = TRUE /\ cmdsLeft = MaxCmds /\ updatesLeft = MaxUpdates
  /\ joinsLeft = 0

Awaited ==
  \/ \E c \in calls, ok \in BOOLEAN : MoveDone(c, ok)
  \/ \E c \in calls, ok \in BOOLEAN : HoldArm(c, ok)
  \/ \E c \in calls : HoldWake(c)
  \/ \E c \in calls, ok \in BOOLEAN : LeaveDone(c, ok)
  \/ PlaybackEnds

IdleSpec ==
  /\ InitIdle /\ [][NextVoice]_vars
  /\ WF_vars(Ready) /\ WF_vars(Awaited) /\ WF_vars(PeriodicCheck(TRUE)) /\ WF_vars(Tick)

\* C32: once the bot is connected with nothing playing, nobody beside it, stay
\* mode off, no call in progress and no activity to come, it is eventually
\* disconnected and the guild's voice state removed.
C32_IdleBotLeaves ==
  (/\ voice.st = "connected" /\ ~voice.playing /\ NonBot(loc, voice.ch) = {}
   /\ ~stayOn /\ calls = {} /\ cmdsLeft = 0 /\ updatesLeft = 0)
  ~> (voice.st = "none" /\ ~VOICE_STATE.present)

\* ------------------------------------------------------------------ C33
\* C33: the idle-disconnect task issues its disconnect only when, as it runs,
\* it has not been cancelled, the bot is connected and alone, nothing is
\* playing and the idle timeout has passed since the last activity recorded;
\* a task whose timeout has passed and that finds the bot not connected leaves
\* the voice client alone and removes the guild's voice state.
C33_IdleDisconnectsOnlyIdle ==
  [][\A t \in idleTasks :
       IdleRun(t)
       => /\ (\E x \in idleTasks' \ idleTasks : x.pc = "disc")
             => /\ ~t.cancelled
                /\ voice.st = "connected" /\ ~voice.playing
                /\ NonBot(loc, voice.ch) = {}
                /\ VOICE_STATE.present
                /\ VOICE_STATE.last_activity >= VOICE_IDLE_TIMEOUT_SECS
          /\ /\ voice.st # "connected"
             /\ VOICE_STATE.present
             /\ VOICE_STATE.last_activity >= VOICE_IDLE_TIMEOUT_SECS
             /\ voice.st = "none" \/ NonBot(loc, voice.ch) = {}
             => /\ voice' = voice
                /\ ~VOICE_STATE'.present
                /\ ~\E x \in idleTasks' : x.pc = "disc" /\ ~x.cancelled]_vars

\* an idle-disconnect task awaits its disconnect beside a post-playback task
\* that still sleeps
C33_IdleDisconnecting ==
  /\ \E t \in idleTasks : t.pc = "disc" /\ ~t.cancelled
  /\ voice.st = "connected"
  /\ streams.started > 0

\* ------------------------------------------------------------------ C34
\* C34: at most one idle-disconnect task and at most one post-playback task
\* of the guild is live (not ended, cancellation not requested).
C34_OneLiveTimerEach ==
  /\ Cardinality({t \in idleTasks : ~t.cancelled}) <= 1
  /\ Cardinality({t \in postTasks : ~t.cancelled}) <= 1

\* a task whose cancellation was requested at its disconnect has not ended
\* yet, and its replacement is the one live idle task
C34_ReplacedWhileDisconnecting ==
  /\ \E t \in idleTasks : t.cancelled
  /\ \E t \in idleTasks : ~t.cancelled /\ t.tracked

\* ------------------------------------------------------------------ C35
\* C35: an idle-disconnect task that finds users beside the bot refreshes the
\* activity and goes on to its sleep of 60 s: after that step an idle task of
\* the guild is asleep for the 60 s, and none is about to check at once.
C35_RefreshThenSleep ==
  [][\A t \in idleTasks :
       IdleRun(t) /\ voice.st # "none" /\ NonBot(loc, voice.ch) # {}
       => /\ \E x \in idleTasks' : x.pc = "sleep" /\ x.rem = 1 /\ ~x.cancelled
          /\ ~\E x \in idleTasks' : x.pc = "start" /\ ~x.cancelled]_vars

\* ------------------------------------------------------------------ C36
\* Two rallies of one host side by side: their creation, the members of
\* their channels and the deletion checks.
InitPair ==
  /\ Start /\ TEMP_VC_CATEGORY_ID = NotConfigured /\ rallyCap = MaxRallies
  /\ ENABLE_VOICE = TRUE /\ cmdsLeft = 0 /\ updatesLeft = MaxUpdates /\ joinsLeft = 0

NextPair ==
  \/ \E h \in Users, kind \in RallyKinds, ok \in BOOLEAN :
       RallyCreateBegin(h, kind, General, ok)
  \/ \E cr \in creating, ok \in BOOLEAN : RallyCreateRegister(cr, ok)
  \/ \E cr \in creating, ok \in BOOLEAN : RallyCreateFinish(cr, ok)
  \/ \E u \in Users, to \in TempChans \cup {None} : UserVoiceUpdate(u, to)
  \/ \E t \in graceTasks : GraceFire(t)
  \/ \E t \in graceTasks, ok \in BOOLEAN : GraceDeleteDone(t, ok)
  \/ \E t \in graceTasks, ok \in BOOLEAN : GracePostDone(t, ok)
  \/ \E t \in idleTasks : IdleRun(t)
  \/ PeriodicCheck(TRUE)
  \/ Tick

PairSpec == InitPair /\ [][NextPair]_vars

\* C36: every entry of VC_TO_POST refers to a registered rally whose
\* temp_vc_id is that channel, no two rallies share a temp_vc_id other than
\* None, and a rally has no temp_vc_id exactly when it has no invite url.
C36_ReverseIndexConsistent ==
  /\ \A c \in DOMAIN VC_TO_POST :
       /\ VC_TO_POST[c] \in DOMAIN RALLIES
       /\ RALLIES[VC_TO_POST[c]].temp_vc_id = c
  /\ \A m1, m2 \in DOMAIN RALLIES :
       RALLIES[m1].temp_vc_id # None /\ RALLIES[m1].temp_vc_id = RALLIES[m2].temp_vc_id
         => m1 = m2
  /\ \A m \in DOMAIN RALLIES :
       (RALLIES[m].temp_vc_id = None) <=> (RALLIES[m].temp_vc_invite_url = None)

\* one rally is registered and indexed with its channel, and another has had
\* its channel torn down and its two fields cleared
C36_IndexedBesideCleared ==
  \E m1, m2 \in DOMAIN RALLIES :
    /\ RALLIES[m1].temp_vc_id \in DOMAIN VC_TO_POST
    /\ RALLIES[m2].temp_vc_id = None

\* ---------------------------------------------------------------- C37
\* One join form with every outcome of the calls it awaits, for a rally that is
\* created, entered, left and torn down.
InitFollowUp ==
  /\ Start /\ TEMP_VC_CATEGORY_ID = NotConfigured /\ rallyCap = 1
  /\ ENABLE_VOICE = TRUE /\ cmdsLeft = 0 /\ updatesLeft = MaxUpdates /\ joinsLeft = 1

NextFollowUp ==
  \/ \E h \in Users, kind \in RallyKinds, ok \in BOOLEAN :
       RallyCreateBegin(h, kind, General, ok)
  \/ \E cr \in creating, ok \in BOOLEAN : RallyCreateRegister(cr, ok)
  \/ \E cr \in creating, ok \in BOOLEAN : RallyCreateFinish(cr, ok)
  \/ \E u \in Joiners, mid \in {MessageId(c) : c \in 1..rallyCap}, f \in Forms, o \in FollowUps :
       JoinSubmit(u, mid, f, o)
  \/ \E u \in Users, to \in TempChans \cup {None} : UserVoiceUpdate(u, to)
  \/ \E t \in graceTasks : GraceFire(t)
  \/ \E t \in graceTasks, ok \in BOOLEAN : GraceDeleteDone(t, ok)
  \/ \E t \in graceTasks, ok \in BOOLEAN : GracePostDone(t, ok)
  \/ \E t \in idleTasks : IdleRun(t)
  \/ PeriodicCheck(TRUE)
  \/ Tick

FollowUpSpec == InitFollowUp /\ [][NextFollowUp]_vars

\* C37: a join form that did not end with the success answer has not added or
\* replaced a roster entry, whatever became of the invite, the DM and the
\* update of the post.
C37_UnansweredJoinLeavesRoster ==
  [][JoinStep /\ ~form'.done => RALLIES' = RALLIES]_vars

\* ---------------------------------------------------------------- C38
\* The voice session with commands that may come with no audio url and meet a
\* channel in which the bot lacks permissions.
InitRefusal ==
  /\ Start /\ TEMP_VC_CATEGORY_ID = NotConfigured /\ rallyCap = 1
  /\ ENABLE_VOICE = TRUE /\ cmdsLeft = MaxCmds /\ updatesLeft = MaxUpdates /\ joinsLeft = 0

NextRefusal ==
  \/ NextVoice
  \/ \E u \in Users, cmd \in {"play", "stay", "hold"}, url \in BOOLEAN, perms \in Permissions :
       /\ ~url \/ perms # Granted
       /\ CmdBegin(u, cmd, 1, url, perms)

RefusalSpec == InitRefusal /\ [][NextRefusal]_vars

====
